---- MODULE Spec2Model ----
(***************************************************************************)
(* Conversation memory of nft-intelligence-ai.                             *)
(*                                                                         *)
(* The source holds two ConversationMemory classes: the flat-key one       *)
(* (this.conversations, a Map keyed by `${userId}:${platform}`) and the    *)
(* nested-map one (this.memory, a Map of userId to a Map of platform).     *)
(* Both are modelled; every interface call is applied to both stores so    *)
(* that their answers can be compared.                                     *)
(*                                                                         *)
(* JavaScript values that may be something other than a string (userQuery, *)
(* aiResponse, intent, intent.type) are tagged records with a field js.    *)
(* userId and platform are plain strings.  Timestamps are milliseconds:    *)
(* toISOString / new Date(iso) keep millisecond precision, so the integer  *)
(* stands for the ISO string.                                              *)
(***************************************************************************)
EXTENDS Integers, Sequences, FiniteSets, TLC

VARIABLES
    conversations,  \* flat-key implementation: this.conversations
    memory,         \* nested-map implementation: this.memory
    now,            \* the wall clock read by new Date() / Date.now(), in ms
    exported,       \* the object last returned by exportConversation, or None
    ret,            \* the last call made and what each implementation returned
    trail,          \* per (userId, platform): the arguments of every addInteraction
                    \* the nested implementation ran since the log was created
    trailFlat,      \* per flat key: the arguments of every addInteraction the flat
                    \* implementation completed since the log was created
    swept,          \* the (userId, platform) logs a cleanup has removed entries from
    lastSteps,      \* the last two state-changing steps: operation and key
    calls,          \* number of state-changing calls and clock ticks so far
    isDemoMode,     \* the orchestrator's this.isDemoMode
    inflight,       \* the processQuery calls made, in the order of the calls:
                    \* arguments, the await each is suspended at, its locals
    appendedBy      \* per (userId, platform): the processQuery calls whose
                    \* interaction was appended since the log was created

vars == <<conversations, memory, now, exported, ret, trail, trailFlat, swept,
          lastSteps, calls, isDemoMode, inflight, appendedBy>>

\* the orchestrator's part of the state
orchestratorVars == <<isDemoMode, inflight, appendedBy>>

-----------------------------------------------------------------------------
(* Bounds of the model *)

\* The caps are 20 (flat) and 50 (nested) in the source; the model runs them
\* scaled down so that a log reaches and passes its cap within MaxCalls steps.
maxHistoryPerUser == 2
maxInteractionsPerUser == 2
\* the number of state-changing calls and clock ticks of a run
MaxCalls == 3
\* the number of calls of a run that counts topics and intent types: enough
\* for more intent types than getContext reports
MaxTopicCalls == 4
\* the number of calls and clock ticks of a run that sweeps: enough for two
\* logs, one of them with an old and a new interaction
MaxSweepCalls == 5

-----------------------------------------------------------------------------
(* JavaScript values *)

undefined == [js |-> "undefined"]
null == [js |-> "null"]
Str(s) == [js |-> "string", s |-> s]
Obj(t) == [js |-> "object", type |-> t]

Bool(b) == [js |-> "boolean", b |-> b]
Num(n) == [js |-> "number", n |-> n]

None == [js |-> "none"]

\* new Date().toISOString() at clock value t, and new Date(iso) of such a string
toISOString(t) == [js |-> "string", iso |-> t]
dateOf(iso) == iso.iso

\* if (v) ... : undefined, null and "" are falsy, objects are truthy
Truthy(v) ==
    CASE v.js = "undefined" -> FALSE
      [] v.js = "null" -> FALSE
      [] v.js = "string" -> v.s # ""
      [] OTHER -> TRUE

\* v.length, v.toLowerCase(): a TypeError on undefined and null
HasStringMethods(v) == v.js = "string"

\* a default parameter (intent = d) takes its default exactly for undefined
DefaultParam(v, d) == IF v.js = "undefined" THEN d ELSE v

\* intent.type
TypeOf(intent) == IF intent.js = "object" THEN intent.type ELSE undefined

-----------------------------------------------------------------------------
(* Strings *)

Upper == <<"A","B","C","D","E","F","G","H","I","J","K","L","M",
           "N","O","P","Q","R","S","T","U","V","W","X","Y","Z">>
Lower == <<"a","b","c","d","e","f","g","h","i","j","k","l","m",
           "n","o","p","q","r","s","t","u","v","w","x","y","z">>

LowerChar(c) ==
    IF \E i \in 1..26 : Upper[i] = c
    THEN Lower[CHOOSE i \in 1..26 : Upper[i] = c]
    ELSE c

RECURSIVE toLowerCase(_)
toLowerCase(s) ==
    IF Len(s) = 0 THEN ""
    ELSE LowerChar(SubSeq(s, 1, 1)) \o toLowerCase(SubSeq(s, 2, Len(s)))

\* String.prototype.includes
includes(s, t) ==
    \E i \in 1..(Len(s) - Len(t) + 1) : SubSeq(s, i, i + Len(t) - 1) = t

\* Array.prototype.slice(-n) for n >= 0; slice(-0) is slice(0), the whole array
sliceLast(seq, n) ==
    IF n = 0 \/ n >= Len(seq) THEN seq
    ELSE SubSeq(seq, Len(seq) - n + 1, Len(seq))

\* Array.prototype.slice(0, n)
sliceFirst(seq, n) == IF n >= Len(seq) THEN seq ELSE SubSeq(seq, 1, n)

Range(seq) == {seq[i] : i \in 1..Len(seq)}

-----------------------------------------------------------------------------
(* Maps *)

\* a Map whose iteration order is never observed: a function on its keys
EmptyMap == [k \in {} |-> None]
MapHas(m, k) == k \in DOMAIN m
MapSet(m, k, v) == [x \in (DOMAIN m) \cup {k} |-> IF x = k THEN v ELSE m[x]]
MapDelete(m, k) == [x \in (DOMAIN m) \ {k} |-> m[x]]

\* a Map whose insertion order is observed (Array.from(map.entries())): a
\* sequence of entries; set() of a present key keeps its position
\* (map.get(k) || 0) for a Map of counts
OrdCount(m, k) ==
    IF \E i \in 1..Len(m) : m[i].key = k
    THEN (m[CHOOSE i \in 1..Len(m) : m[i].key = k]).value
    ELSE 0
OrdSet(m, k, v) ==
    IF \E i \in 1..Len(m) : m[i].key = k
    THEN [i \in 1..Len(m) |-> IF m[i].key = k THEN [key |-> k, value |-> v] ELSE m[i]]
    ELSE Append(m, [key |-> k, value |-> v])

\* Set.prototype.add on an insertion-ordered Set
SetAdd(s, v) == IF v \in Range(s) THEN s ELSE Append(s, v)

\* reduce((sum, i) => sum + i.queryLength, 0)
RECURSIVE sumQueryLength(_)
sumQueryLength(interactions) ==
    IF interactions = <<>> THEN 0
    ELSE Head(interactions).queryLength + sumQueryLength(Tail(interactions))

-----------------------------------------------------------------------------
(* The flat-key implementation: this.conversations *)

getMemoryKey(userId, platform) == userId \o ":" \o platform

\* the object literal of addInteraction for a key seen for the first time
newConversation(userId, platform, t) ==
    [userId |-> userId,
     platform |-> platform,
     interactions |-> <<>>,
     metadata |-> [firstInteraction |-> toISOString(t),
                   lastInteraction |-> toISOString(t),
                   totalInteractions |-> 0,
                   preferredTopics |-> <<>>,
                   averageQueryLength |-> [num |-> 0, den |-> 1]]]

\* userQuery.length and aiResponse.length throw a TypeError on undefined or null
flatThrows(userQuery, aiResponse) ==
    ~HasStringMethods(userQuery) \/ ~HasStringMethods(aiResponse)

flatInteraction(userQuery, aiResponse, intent, t) ==
    [timestamp |-> toISOString(t),
     userQuery |-> userQuery,
     aiResponse |-> aiResponse,
     intent |-> intent,
     queryLength |-> Len(userQuery.s),
     responseLength |-> Len(aiResponse.s)]

\* the history limit: slice(-maxHistoryPerUser) once the log is longer than it
flatLimit(interactions) ==
    IF Len(interactions) > maxHistoryPerUser
    THEN sliceLast(interactions, maxHistoryPerUser)
    ELSE interactions

\* the conversation after the push, the metadata update and the history limit
flatAppend(conversation, userQuery, aiResponse, intent, t) ==
    LET pushed == Append(conversation.interactions,
                         flatInteraction(userQuery, aiResponse, intent, t))
        m == conversation.metadata
    IN  [conversation EXCEPT
            !.interactions = flatLimit(pushed),
            !.metadata =
                [m EXCEPT
                    !.lastInteraction = toISOString(t),
                    !.totalInteractions = m.totalInteractions + 1,
                    !.preferredTopics =
                        IF Truthy(intent) /\ Truthy(TypeOf(intent))
                        THEN SetAdd(m.preferredTopics, TypeOf(intent))
                        ELSE m.preferredTopics,
                    !.averageQueryLength =
                        [num |-> sumQueryLength(pushed), den |-> Len(pushed)]]]

\* addInteraction(userId, platform, userQuery, aiResponse, intent = null):
\* the store it leaves, also when it throws after creating the conversation
addInteractionFlat(convs, userId, platform, userQuery, aiResponse, intentArg, t) ==
    LET key == getMemoryKey(userId, platform)
        intent == DefaultParam(intentArg, null)
        created == IF MapHas(convs, key) THEN convs
                   ELSE MapSet(convs, key, newConversation(userId, platform, t))
    IN  IF flatThrows(userQuery, aiResponse) THEN created
        ELSE MapSet(created, key,
                    flatAppend(created[key], userQuery, aiResponse, intent, t))

RECURSIVE sumResponseLength(_)
sumResponseLength(interactions) ==
    IF interactions = <<>> THEN 0
    ELSE Head(interactions).responseLength + sumResponseLength(Tail(interactions))

\* calculateEngagementScore(interactions); an average sum / n is compared with
\* a threshold as sum against threshold * n
calculateEngagementScore(interactions) ==
    IF Len(interactions) < 2 THEN "new"
    ELSE LET recent == sliceLast(interactions, 5)
             n == Len(recent)
             q == sumQueryLength(recent)
             r == sumResponseLength(recent)
         IN  IF q > 100 * n /\ r > 200 * n THEN "high"
             ELSE IF q > 50 * n /\ r > 100 * n THEN "medium"
             ELSE "low"

\* .filter(i => i.intent && i.intent.type).map(i => i.intent.type)
RECURSIVE intentTypesOf(_)
intentTypesOf(interactions) ==
    IF interactions = <<>> THEN <<>>
    ELSE (IF Truthy(Head(interactions).intent) /\ Truthy(TypeOf(Head(interactions).intent))
          THEN <<TypeOf(Head(interactions).intent)>> ELSE <<>>)
         \o intentTypesOf(Tail(interactions))

\* the keys of counts, in the order they were first set
RECURSIVE distinctInOrder(_)
distinctInOrder(seq) ==
    IF seq = <<>> THEN <<>>
    ELSE LET front == distinctInOrder(SubSeq(seq, 1, Len(seq) - 1))
         IN  SetAdd(front, seq[Len(seq)])

\* keys.reduce((a, b) => counts[a] > counts[b] ? a : b) from accumulator a
RECURSIVE reduceMostCommon(_, _, _)
reduceMostCommon(a, keys, types) ==
    IF keys = <<>> THEN a
    ELSE LET count(k) == Cardinality({i \in 1..Len(types) : types[i] = k})
             b == Head(keys)
         IN  reduceMostCommon(IF count(a) > count(b) THEN a ELSE b, Tail(keys), types)

\* analyzeRecentFocus(recentInteractions)
analyzeRecentFocus(recentInteractions) ==
    LET intentTypes == intentTypesOf(recentInteractions)
        keys == distinctInOrder(intentTypes)
    IN  IF intentTypes = <<>> THEN Str("general")
        ELSE reduceMostCommon(Head(keys), Tail(keys), intentTypes)

\* analyzeInteractionPattern(interactions): the average of the two intervals
\* between the last three timestamps, in minutes, against 5 and 30
analyzeInteractionPattern(interactions) ==
    IF Len(interactions) < 3 THEN "developing"
    ELSE LET recent == sliceLast(interactions, 3)
             total == (dateOf(recent[2].timestamp) - dateOf(recent[1].timestamp))
                      + (dateOf(recent[3].timestamp) - dateOf(recent[2].timestamp))
         IN  IF total < 5 * 2 * (1000 * 60) THEN "rapid"
             ELSE IF total < 30 * 2 * (1000 * 60) THEN "moderate"
             ELSE "sporadic"

\* Math.round(num / den): the nearest integer, a half rounded up
roundFraction(f) == (2 * f.num + f.den) \div (2 * f.den)

\* generateContextSummary(conversation)
generateContextSummary(conversation) ==
    IF Len(conversation.interactions) = 0 THEN null
    ELSE [userEngagement |-> calculateEngagementScore(conversation.interactions),
          preferredTopics |-> conversation.metadata.preferredTopics,
          averageQueryLength |-> roundFraction(conversation.metadata.averageQueryLength),
          recentFocus |-> analyzeRecentFocus(sliceLast(conversation.interactions, 3)),
          interactionPattern |-> analyzeInteractionPattern(conversation.interactions)]

\* getContext(userId, platform, limit = 5); the object returned for an
\* unknown key has no totalInteractions property, which reads as undefined,
\* so the property is given as a tagged value
getContextFlat(convs, userId, platform, limit) ==
    LET key == getMemoryKey(userId, platform)
    IN  IF ~MapHas(convs, key)
        THEN [hasHistory |-> FALSE,
              recentInteractions |-> <<>>,
              metadata |-> null,
              contextSummary |-> null,
              totalInteractions |-> undefined]
        ELSE [hasHistory |-> TRUE,
              recentInteractions |-> sliceLast(convs[key].interactions, limit),
              metadata |-> convs[key].metadata,
              contextSummary |-> generateContextSummary(convs[key]),
              totalInteractions |-> Num(convs[key].metadata.totalInteractions)]

\* getHistory(userId, platform, limit = 10)
getHistoryFlat(convs, userId, platform, limit) ==
    LET key == getMemoryKey(userId, platform)
    IN  IF ~MapHas(convs, key) THEN <<>>
        ELSE sliceLast(convs[key].interactions, limit)

\* clear(userId, platform): Map.delete and its result
clearFlat(convs, userId, platform) ==
    MapDelete(convs, getMemoryKey(userId, platform))

clearFlatResult(convs, userId, platform) ==
    MapHas(convs, getMemoryKey(userId, platform))

-----------------------------------------------------------------------------
(* The nested-map implementation: this.memory *)

collections == <<"bored ape", "bayc", "cryptopunks", "azuki", "mutant ape",
                 "pudgy penguins", "clone x", "moonbirds", "otherdeed", "doodles">>
analysisTypes == <<"wallet", "collection", "market", "risk", "fraud", "trading",
                   "investment", "portfolio", "trends", "price">>
blockchainTerms == <<"ethereum", "polygon", "solana", "bitcoin", "defi", "nft",
                     "token", "smart contract", "gas", "opensea">>
riskAverseTerms == <<"safe", "secure", "low risk", "conservative", "stable">>
riskSeekingTerms == <<"risky", "high return", "volatile", "speculative", "gamble">>

\* terms.forEach(term => { if (lowerQuery.includes(term)) topics.push(term) })
RECURSIVE matching(_, _)
matching(terms, lowerQuery) ==
    IF terms = <<>> THEN <<>>
    ELSE (IF includes(lowerQuery, Head(terms)) THEN <<Head(terms)>> ELSE <<>>)
         \o matching(Tail(terms), lowerQuery)

\* extractTopics(query), for a query that has toLowerCase
extractTopics(query) ==
    LET lowerQuery == toLowerCase(query.s)
    IN  matching(collections, lowerQuery)
        \o matching(analysisTypes, lowerQuery)
        \o matching(blockchainTerms, lowerQuery)

\* updateRiskTolerance(context, query): the new context.riskTolerance
updateRiskTolerance(riskTolerance, query) ==
    LET lowerQuery == toLowerCase(query.s)
        riskAverseScore == Len(matching(riskAverseTerms, lowerQuery))
        riskSeekingScore == Len(matching(riskSeekingTerms, lowerQuery))
    IN  IF riskAverseScore > riskSeekingScore THEN "conservative"
        ELSE IF riskSeekingScore > riskAverseScore THEN "aggressive"
        ELSE IF riskTolerance = "unknown" THEN "moderate"
        ELSE riskTolerance

\* countTopics that sets a count to 1 instead of adding 1 to it
RECURSIVE countTopicsOverwrites(_, _)
countTopicsOverwrites(commonTopics, topics) ==
    IF topics = <<>> THEN commonTopics
    ELSE countTopicsOverwrites(OrdSet(commonTopics, Head(topics), 1), Tail(topics))

\* topics.forEach(topic => commonTopics.set(topic, (commonTopics.get(topic) || 0) + 1))
RECURSIVE countTopics(_, _)
countTopics(commonTopics, topics) ==
    IF topics = <<>> THEN commonTopics
    ELSE LET count == OrdCount(commonTopics, Head(topics))
         IN  countTopics(OrdSet(commonTopics, Head(topics), count + 1), Tail(topics))

\* the object literal of addInteraction for a platform seen for the first time
newPlatformMemory ==
    [interactions |-> <<>>,
     context |-> [totalInteractions |-> 0,
                  lastInteractionTime |-> null,
                  commonTopics |-> <<>>,
                  preferredAnalysisTypes |-> <<>>,
                  riskTolerance |-> "unknown"]]

\* generateInteractionId(): `int_${Date.now()}_${random}`
generateInteractionId(t, rnd) == [ms |-> t, random |-> rnd]

\* the statements of updateContext that run before extractTopics
updateBasicStats(context, interaction) ==
    [context EXCEPT
        !.totalInteractions = context.totalInteractions + 1,
        !.lastInteractionTime = interaction.timestamp]

\* updateContext(platformMemory, interaction) when nothing throws
updateContext(context, interaction) ==
    LET basic == updateBasicStats(context, interaction)
        type == TypeOf(interaction.intent)
        count == OrdCount(basic.preferredAnalysisTypes, type)
    IN  [basic EXCEPT
            !.commonTopics =
                countTopics(basic.commonTopics, extractTopics(interaction.userQuery)),
            !.preferredAnalysisTypes =
                IF Truthy(interaction.intent) /\ Truthy(type)
                THEN OrdSet(basic.preferredAnalysisTypes, type, count + 1)
                ELSE basic.preferredAnalysisTypes,
            !.riskTolerance =
                updateRiskTolerance(basic.riskTolerance, interaction.userQuery)]

\* query.toLowerCase() in extractTopics throws a TypeError on undefined or null
nestedThrows(userQuery) == ~HasStringMethods(userQuery)

\* nestedTrim that keeps the oldest interactions: slice(0, n) for slice(-n)
nestedTrimKeepsOldest(interactions) ==
    IF Len(interactions) > maxInteractionsPerUser
    THEN sliceFirst(interactions, maxInteractionsPerUser)
    ELSE interactions

\* the trim: slice(-maxInteractionsPerUser) once the log is longer than it
nestedTrim(interactions) ==
    IF Len(interactions) > maxInteractionsPerUser
    THEN sliceLast(interactions, maxInteractionsPerUser)
    ELSE interactions

\* nestedAppend with the counter taken from the length of the stored log
nestedAppendCountsLog(platformMemory, interaction) ==
    LET pushed == Append(platformMemory.interactions, interaction)
        kept == IF nestedThrows(interaction.userQuery) THEN pushed ELSE nestedTrim(pushed)
        context == IF nestedThrows(interaction.userQuery)
                   THEN updateBasicStats(platformMemory.context, interaction)
                   ELSE updateContext(platformMemory.context, interaction)
    IN  [interactions |-> kept,
         context |-> [context EXCEPT !.totalInteractions = Len(kept)]]

\* the platform memory after the push, updateContext and the trim; when
\* updateContext throws, the catch block is entered with the push and the
\* basic stats done and the rest, the trim included, skipped
nestedAppend(platformMemory, interaction) ==
    LET pushed == Append(platformMemory.interactions, interaction)
    IN  IF nestedThrows(interaction.userQuery)
        THEN [interactions |-> pushed,
              context |-> updateBasicStats(platformMemory.context, interaction)]
        ELSE [interactions |-> nestedTrim(pushed),
              context |-> updateContext(platformMemory.context, interaction)]

hasPlatform(mem, userId, platform) ==
    MapHas(mem, userId) /\ MapHas(mem[userId], platform)

\* addInteraction(userId, platform, userQuery, aiResponse, intent = {})
addInteractionNested(mem, userId, platform, userQuery, aiResponse, intentArg, t, rnd) ==
    LET intent == DefaultParam(intentArg, Obj(undefined))
        userMemory == IF MapHas(mem, userId) THEN mem[userId] ELSE EmptyMap
        platformMemory == IF MapHas(userMemory, platform) THEN userMemory[platform]
                          ELSE newPlatformMemory
        interaction == [timestamp |-> toISOString(t),
                        userQuery |-> userQuery,
                        aiResponse |-> aiResponse,
                        intent |-> intent,
                        id |-> generateInteractionId(t, rnd)]
    IN  MapSet(mem, userId,
               MapSet(userMemory, platform, nestedAppend(platformMemory, interaction)))

contextWindowSize == 10

\* rankOf with entries of the same count in the reverse of their order
rankOfTiesReversed(entries, i) ==
    Cardinality({j \in 1..Len(entries) :
                    \/ entries[j].value > entries[i].value
                    \/ (entries[j].value = entries[i].value /\ j > i)}) + 1

\* .sort((a, b) => b[1] - a[1]): a stable sort by descending count; the
\* entry at position i goes behind those with a larger count and those with
\* the same count that precede it
rankOf(entries, i) ==
    Cardinality({j \in 1..Len(entries) :
                    \/ entries[j].value > entries[i].value
                    \/ (entries[j].value = entries[i].value /\ j < i)}) + 1

sortByCountDesc(entries) ==
    [r \in 1..Len(entries) |->
        entries[CHOOSE i \in 1..Len(entries) : rankOf(entries, i) = r]]

\* .sort(...).slice(0, n).map(([key]) => key)
topKeys(entries, n) ==
    LET top == sliceFirst(sortByCountDesc(entries), n)
    IN  [r \in 1..Len(top) |-> top[r].key]

\* getContext(userId, platform)
getContextNested(mem, userId, platform) ==
    IF ~hasPlatform(mem, userId, platform)
    THEN [hasHistory |-> FALSE,
          totalInteractions |-> 0,
          recentInteractions |-> <<>>,
          commonTopics |-> <<>>,
          preferredAnalysisTypes |-> <<>>,
          riskTolerance |-> "unknown",
          lastInteractionTime |-> undefined]
    ELSE LET platformMemory == mem[userId][platform]
         IN  [hasHistory |-> Len(platformMemory.interactions) > 0,
              totalInteractions |-> platformMemory.context.totalInteractions,
              recentInteractions |->
                  sliceLast(platformMemory.interactions, contextWindowSize),
              commonTopics |-> topKeys(platformMemory.context.commonTopics, 5),
              preferredAnalysisTypes |->
                  topKeys(platformMemory.context.preferredAnalysisTypes, 3),
              riskTolerance |-> platformMemory.context.riskTolerance,
              lastInteractionTime |-> platformMemory.context.lastInteractionTime]

\* getHistoryNested with slice(0, limit) for slice(-limit)
getHistoryNestedOldest(mem, userId, platform, limit) ==
    IF ~hasPlatform(mem, userId, platform) THEN <<>>
    ELSE sliceFirst(mem[userId][platform].interactions, limit)

\* getHistory(userId, platform, limit = 10)
getHistoryNested(mem, userId, platform, limit) ==
    IF ~hasPlatform(mem, userId, platform) THEN <<>>
    ELSE sliceLast(mem[userId][platform].interactions, limit)

\* clearNested that empties the log and keeps the platform's context
clearNestedKeepsStats(mem, userId, platform) ==
    IF hasPlatform(mem, userId, platform)
    THEN MapSet(mem, userId,
                MapSet(mem[userId], platform,
                       [mem[userId][platform] EXCEPT !.interactions = <<>>]))
    ELSE mem

\* clear(userId, platform): the platform's entry goes, and the user's with it
\* when it was the last; the method has no return statement
clearNested(mem, userId, platform) ==
    IF hasPlatform(mem, userId, platform)
    THEN LET userMemory == MapDelete(mem[userId], platform)
         IN  IF DOMAIN userMemory = {} THEN MapDelete(mem, userId)
             ELSE MapSet(mem, userId, userMemory)
    ELSE mem

clearNestedResult(mem, userId, platform) == undefined

\* filterNewer that keeps the oldest interaction of a log whatever its age
filterNewerKeepsOldest(interactions, cutoffTime) ==
    LET Newer(interaction) == dateOf(interaction.timestamp) > cutoffTime
    IN  IF interactions = <<>> THEN <<>>
        ELSE <<Head(interactions)>> \o SelectSeq(Tail(interactions), Newer)

\* interactions.filter(i => new Date(i.timestamp) > cutoffTime)
RECURSIVE filterNewer(_, _)
filterNewer(interactions, cutoffTime) ==
    IF interactions = <<>> THEN <<>>
    ELSE (IF dateOf(Head(interactions).timestamp) > cutoffTime
          THEN <<Head(interactions)>> ELSE <<>>)
         \o filterNewer(Tail(interactions), cutoffTime)

\* new Date(Date.now() - maxAgeHours * 60 * 60 * 1000)
cutoffTimeOf(t, maxAgeHours) == t - (maxAgeHours * 60 * 60 * 1000)

\* cleanupUser that sets the counter of a kept platform to the length of the
\* log it keeps
cleanupUserRecounts(userMemory, cutoffTime) ==
    LET kept == {p \in DOMAIN userMemory :
                    filterNewer(userMemory[p].interactions, cutoffTime) # <<>>}
    IN  [p \in kept |->
            [interactions |-> filterNewer(userMemory[p].interactions, cutoffTime),
             context |-> [userMemory[p].context EXCEPT
                            !.totalInteractions =
                                Len(filterNewer(userMemory[p].interactions,
                                                cutoffTime))]]]

\* cleanupUser that leaves the platforms whose log it emptied
cleanupUserKeepsEmpty(userMemory, cutoffTime) ==
    [p \in DOMAIN userMemory |->
        [userMemory[p] EXCEPT
            !.interactions = filterNewer(userMemory[p].interactions, cutoffTime)]]

\* the inner loop of cleanup over one user's platforms
cleanupUser(userMemory, cutoffTime) ==
    LET kept == {p \in DOMAIN userMemory :
                    filterNewer(userMemory[p].interactions, cutoffTime) # <<>>}
    IN  [p \in kept |->
            [userMemory[p] EXCEPT
                !.interactions = filterNewer(userMemory[p].interactions, cutoffTime)]]

\* cleanup(maxAgeHours = 24): the store it leaves
cleanup(mem, t, maxAgeHours) ==
    LET cutoffTime == cutoffTimeOf(t, maxAgeHours)
        kept == {u \in DOMAIN mem : DOMAIN cleanupUser(mem[u], cutoffTime) # {}}
    IN  [u \in kept |-> cleanupUser(mem[u], cutoffTime)]

\* the (userId, platform) pairs that have a platform memory
storedKeys(mem) == UNION {{<<u, p>> : p \in DOMAIN mem[u]} : u \in DOMAIN mem}

RECURSIVE sumRemoved(_, _, _)
sumRemoved(mem, keys, cutoffTime) ==
    IF keys = {} THEN 0
    ELSE LET k == CHOOSE k \in keys : TRUE
             interactions == mem[k[1]][k[2]].interactions
         IN  (Len(interactions) - Len(filterNewer(interactions, cutoffTime)))
             + sumRemoved(mem, keys \ {k}, cutoffTime)

\* cleanup: cleanedCount, the value it returns
cleanedCount(mem, t, maxAgeHours) ==
    sumRemoved(mem, storedKeys(mem), cutoffTimeOf(t, maxAgeHours))

-----------------------------------------------------------------------------
(* exportConversation / importConversation of the flat-key implementation *)

\* exportConversation spreads the conversation into a new object and the
\* metadata into a new object, but the new object's interactions is the very
\* array of the stored conversation: a later push shows in both.  aliased says
\* that the exported object's array is still the stored conversation's array,
\* live that the exported object is itself the stored conversation (after
\* importConversation, which stores the object it is given).
exportConversation(convs, userId, platform) ==
    LET key == getMemoryKey(userId, platform)
    IN  IF ~MapHas(convs, key) THEN null
        ELSE [data |-> convs[key], aliased |-> TRUE, live |-> FALSE]

exportedKey(exp) == getMemoryKey(exp.data.userId, exp.data.platform)

importConversation(convs, exp) == MapSet(convs, exportedKey(exp), exp.data)

\* what a flat addInteraction on key does to the exported object
exportedAfterAdd(exp, convsAfter, key, userQuery, aiResponse, intentArg, t) ==
    IF exp = None THEN exp
    ELSE IF exportedKey(exp) # key \/ ~exp.aliased \/ flatThrows(userQuery, aiResponse)
    THEN exp
    ELSE IF exp.live THEN [exp EXCEPT !.data = convsAfter[key]]
    ELSE LET pushed == Append(exp.data.interactions,
                              flatInteraction(userQuery, aiResponse,
                                              DefaultParam(intentArg, null), t))
         IN  [data |-> [exp.data EXCEPT !.interactions = pushed],
              aliased |-> Len(pushed) <= maxHistoryPerUser,
              live |-> FALSE]

\* what a flat clear of key does to the exported object
exportedAfterClear(exp, key) ==
    IF exp = None THEN exp
    ELSE IF exportedKey(exp) # key THEN exp
    ELSE [exp EXCEPT !.aliased = FALSE, !.live = FALSE]

-----------------------------------------------------------------------------
(* Inputs *)

\* one user on two platforms
KeyPairs == {<<"u1", "tg">>, <<"u1", "web:tg">>}
\* and a second user: "u1" on "web:tg" and "u1:web" on "tg" are different
\* pairs with one flat key
AllKeyPairs == KeyPairs \cup {<<"u1:web", "tg">>}
Queries == {Str("Safe nft"), Str("gas fee"), undefined}
Responses == {Str("ok")}
Intents == {undefined, Obj(Str("wallet_analysis"))}
RandomTokens == {"k3x9"}
\* getHistory called without a limit, getContext without a window size
Limits == {undefined}
Windows == {undefined}
MaxAgeHours == {1}
TickMs == 60 * 60 * 1000

TypeError == [js |-> "throw", error |-> "TypeError"]

Call(op, userId, platform, arg, flat, nested) ==
    [op |-> op, userId |-> userId, platform |-> platform, arg |-> arg,
     flat |-> flat, nested |-> nested]

-----------------------------------------------------------------------------
(* The state machine *)

Init ==
    /\ conversations = EmptyMap
    /\ memory = EmptyMap
    /\ now = 0
    /\ exported = None
    /\ ret = Call("new", "", "", None, None, None)
    /\ trail = EmptyMap
    /\ trailFlat = EmptyMap
    /\ swept = {}
    /\ lastSteps = <<>>
    /\ calls = 0
    /\ isDemoMode = TRUE
    /\ inflight = <<>>
    /\ appendedBy = EmptyMap

Turn(userQuery, aiResponse, intent, t) ==
    [userQuery |-> userQuery, aiResponse |-> aiResponse, intent |-> intent, at |-> t]

\* removed: the logs a clear deleted
NoLog == [flat |-> FALSE, nested |-> FALSE]
Step(op, userId, platform, removed) ==
    [op |-> op, userId |-> userId, platform |-> platform, removed |-> removed]

Remember(step) == sliceLast(Append(lastSteps, step), 2)

\* addInteraction on both implementations: what one call does
AddInteractionCall(userId, platform, userQuery, aiResponse, intent, rnd) ==
    LET key == getMemoryKey(userId, platform)
        pair == <<userId, platform>>
        threw == flatThrows(userQuery, aiResponse)
        turn == Turn(userQuery, aiResponse, intent, now)
        convsAfter == addInteractionFlat(conversations, userId, platform,
                                         userQuery, aiResponse, intent, now)
    IN  /\ conversations' = convsAfter
        /\ exported' = exportedAfterAdd(exported, convsAfter, key,
                                        userQuery, aiResponse, intent, now)
        /\ memory' = addInteractionNested(memory, userId, platform,
                                          userQuery, aiResponse, intent, now, rnd)
        /\ ret' = Call("addInteraction", userId, platform,
                       [userQuery |-> userQuery, aiResponse |-> aiResponse,
                        intent |-> intent],
                       IF threw THEN TypeError ELSE undefined, undefined)
        /\ trail' = MapSet(trail, pair,
                           Append(IF MapHas(trail, pair) THEN trail[pair] ELSE <<>>,
                                  turn))
        /\ trailFlat' =
              LET before == IF MapHas(trailFlat, key) THEN trailFlat[key] ELSE <<>>
              IN  MapSet(trailFlat, key, IF threw THEN before ELSE Append(before, turn))
        /\ lastSteps' = Remember(Step("addInteraction", userId, platform, NoLog))
        /\ calls' = calls + 1
        /\ UNCHANGED <<now, swept>>
        /\ UNCHANGED orchestratorVars

\* addInteraction as one of the MaxCalls calls of a run
AddInteraction(userId, platform, userQuery, aiResponse, intent, rnd) ==
    /\ calls < MaxCalls
    /\ AddInteractionCall(userId, platform, userQuery, aiResponse, intent, rnd)

\* addInteraction as one of the MaxTopicCalls calls of a run
AddTopicInteraction(userId, platform, userQuery, aiResponse, intent, rnd) ==
    /\ calls < MaxTopicCalls
    /\ AddInteractionCall(userId, platform, userQuery, aiResponse, intent, rnd)

\* the parameter limit = 5 of the flat getContext
contextLimit(limitArg) == DefaultParam(limitArg, Num(5)).n

\* GetContext that creates the platform memory of a pair it is asked about
GetContextCreatesLog(userId, platform, windowArg) ==
    /\ ret' = Call("getContext", userId, platform, [windowSize |-> windowArg],
                   getContextFlat(conversations, userId, platform,
                                  contextLimit(windowArg)),
                   getContextNested(memory, userId, platform))
    /\ memory' = IF hasPlatform(memory, userId, platform) THEN memory
                 ELSE MapSet(memory, userId,
                             MapSet(IF MapHas(memory, userId) THEN memory[userId]
                                    ELSE EmptyMap,
                                    platform, newPlatformMemory))
    /\ UNCHANGED <<conversations, now, exported, trail, trailFlat, swept,
                   lastSteps, calls>>
    /\ UNCHANGED orchestratorVars

\* getContext on both implementations, called with a third argument or
\* without one; the nested getContext(userId, platform) has no third
\* parameter, so the argument is dropped
GetContext(userId, platform, windowArg) ==
    /\ ret' = Call("getContext", userId, platform, [windowSize |-> windowArg],
                   getContextFlat(conversations, userId, platform,
                                  contextLimit(windowArg)),
                   getContextNested(memory, userId, platform))
    /\ UNCHANGED <<conversations, memory, now, exported, trail, trailFlat, swept,
                   lastSteps, calls>>
    /\ UNCHANGED orchestratorVars

\* the parameter limit = 10 of getHistory, in both implementations
historyLimit(limitArg) == DefaultParam(limitArg, Num(10)).n

\* getHistory on both implementations
GetHistory(userId, platform, limitArg) ==
    /\ ret' = Call("getHistory", userId, platform, [limit |-> limitArg],
                   getHistoryFlat(conversations, userId, platform,
                                  historyLimit(limitArg)),
                   getHistoryNested(memory, userId, platform,
                                    historyLimit(limitArg)))
    /\ UNCHANGED <<conversations, memory, now, exported, trail, trailFlat, swept,
                   lastSteps, calls>>
    /\ UNCHANGED orchestratorVars

\* clear on both implementations: what one call does; the processQuery
\* calls in flight are left as they are
ClearCall(userId, platform) ==
    LET key == getMemoryKey(userId, platform)
        pair == <<userId, platform>>
    IN  /\ conversations' = clearFlat(conversations, userId, platform)
        /\ exported' = exportedAfterClear(exported, key)
        /\ memory' = clearNested(memory, userId, platform)
        /\ ret' = Call("clear", userId, platform, None,
                       Bool(clearFlatResult(conversations, userId, platform)),
                       clearNestedResult(memory, userId, platform))
        /\ trail' = MapDelete(trail, pair)
        /\ trailFlat' = MapDelete(trailFlat, key)
        /\ swept' = swept \ {pair}
        /\ lastSteps' = Remember(Step("clear", userId, platform,
                                       [flat |-> MapHas(conversations, key),
                                        nested |-> hasPlatform(memory, userId, platform)]))
        /\ calls' = calls + 1
        /\ appendedBy' = MapDelete(appendedBy, pair)
        /\ UNCHANGED <<now, isDemoMode, inflight>>

\* clear as one of the MaxCalls calls of a run
Clear(userId, platform) == calls < MaxCalls /\ ClearCall(userId, platform)

\* cleanup, which only the nested implementation has: what one call does
CleanupCall(maxAgeHours) ==
    /\ memory' = cleanup(memory, now, maxAgeHours)
    /\ ret' = Call("cleanup", "", "", [maxAgeHours |-> maxAgeHours],
                   None, Num(cleanedCount(memory, now, maxAgeHours)))
    /\ trail' = [k \in storedKeys(memory') |-> trail[k]]
    /\ swept' = {k \in storedKeys(memory') :
                    \/ k \in swept
                    \/ memory'[k[1]][k[2]].interactions # memory[k[1]][k[2]].interactions}
    /\ lastSteps' = Remember(Step("cleanup", "", "", NoLog))
    /\ calls' = calls + 1
    /\ appendedBy' = [k \in storedKeys(memory') \cap DOMAIN appendedBy |-> appendedBy[k]]
    /\ UNCHANGED <<conversations, now, exported, trailFlat, isDemoMode, inflight>>

\* exportConversation, which only the flat implementation has; the caller
\* keeps the object it got last
ExportConversation(userId, platform) ==
    LET result == exportConversation(conversations, userId, platform)
    IN  /\ exported' = IF result = null THEN exported ELSE result
        /\ ret' = Call("exportConversation", userId, platform, None,
                       IF result = null THEN null ELSE result.data, None)
        /\ UNCHANGED <<conversations, memory, now, trail, trailFlat, swept,
                       lastSteps, calls>>
        /\ UNCHANGED orchestratorVars

\* importConversation of the object exportConversation returned
ImportConversation ==
    /\ calls < MaxCalls
    /\ exported # None
    /\ conversations' = importConversation(conversations, exported)
    /\ exported' = [exported EXCEPT !.aliased = TRUE, !.live = TRUE]
    /\ ret' = Call("importConversation", exported.data.userId, exported.data.platform,
                   None, undefined, None)
    /\ trailFlat' = MapSet(trailFlat, exportedKey(exported), <<>>)
    /\ lastSteps' = Remember(Step("importConversation", exported.data.userId,
                                  exported.data.platform, NoLog))
    /\ calls' = calls + 1
    /\ UNCHANGED <<memory, now, trail, swept>>
    /\ UNCHANGED orchestratorVars

\* time passes
TickCall ==
    /\ now' = now + TickMs
    /\ lastSteps' = Remember(Step("tick", "", "", NoLog))
    /\ calls' = calls + 1
    /\ UNCHANGED <<conversations, memory, exported, ret, trail, trailFlat, swept>>
    /\ UNCHANGED orchestratorVars

\* cleanup and a clock tick among the MaxCalls calls of a run
Cleanup(maxAgeHours) == calls < MaxCalls /\ CleanupCall(maxAgeHours)
Tick == calls < MaxCalls /\ TickCall

\* addInteraction, cleanup and a clock tick among the MaxSweepCalls calls of
\* a run
AddSweepInteraction(userId, platform, userQuery, aiResponse, intent, rnd) ==
    /\ calls < MaxSweepCalls
    /\ AddInteractionCall(userId, platform, userQuery, aiResponse, intent, rnd)
SweepCleanup(maxAgeHours) == calls < MaxSweepCalls /\ CleanupCall(maxAgeHours)
SweepTick == calls < MaxSweepCalls /\ TickCall

\* the five operations of the interface, on both implementations
Next ==
    \/ \E k \in KeyPairs, q \in Queries, r \in Responses, i \in Intents,
          rnd \in RandomTokens :
            AddInteraction(k[1], k[2], q, r, i, rnd)
    \/ \E k \in KeyPairs, w \in Windows : GetContext(k[1], k[2], w)
    \/ \E k \in KeyPairs, limit \in Limits : GetHistory(k[1], k[2], limit)
    \/ \E k \in KeyPairs : Clear(k[1], k[2])
    \/ \E h \in MaxAgeHours : Cleanup(h)
    \/ Tick

Spec == Init /\ [][Next]_vars

\* the interface and the flat implementation's export and import
NextImport ==
    \/ \E k \in KeyPairs, q \in Queries, r \in Responses, i \in Intents,
          rnd \in RandomTokens :
            AddInteraction(k[1], k[2], q, r, i, rnd)
    \/ \E k \in KeyPairs, w \in Windows : GetContext(k[1], k[2], w)
    \/ \E k \in KeyPairs : Clear(k[1], k[2])
    \/ \E k \in KeyPairs : ExportConversation(k[1], k[2])
    \/ ImportConversation

SpecImport == Init /\ [][NextImport]_vars

\* the interface called by two users, one of them on two platforms
NextKeys ==
    \/ \E k \in AllKeyPairs, q \in {Str("gas fee"), undefined}, r \in Responses,
          rnd \in RandomTokens :
            AddInteraction(k[1], k[2], q, r, undefined, rnd)
    \/ \E k \in AllKeyPairs, w \in Windows : GetContext(k[1], k[2], w)
    \/ \E k \in AllKeyPairs, limit \in Limits : GetHistory(k[1], k[2], limit)
    \/ \E k \in AllKeyPairs : Clear(k[1], k[2])

SpecKeys == Init /\ [][NextKeys]_vars

\* the interface called with an empty userId, an empty platform and an empty
\* query next to ordinary ones
TotalKeyPairs == {<<"", "tg">>, <<"u1", "">>, <<"u1", "tg">>}
TotalQueries == {Str(""), Str("gas fee"), undefined}

NextTotal ==
    \/ \E k \in TotalKeyPairs, q \in TotalQueries, r \in Responses,
          rnd \in RandomTokens :
            AddInteraction(k[1], k[2], q, r, undefined, rnd)
    \/ \E k \in TotalKeyPairs, w \in Windows : GetContext(k[1], k[2], w)
    \/ \E k \in TotalKeyPairs, limit \in Limits : GetHistory(k[1], k[2], limit)
    \/ \E k \in TotalKeyPairs : Clear(k[1], k[2])
    \/ \E h \in MaxAgeHours : Cleanup(h)
    \/ Tick

SpecTotal == Init /\ [][NextTotal]_vars

\* getHistory with no limit and with limits below, at and above the length
\* a log can have
HistoryLimits == {undefined, Num(0), Num(1), Num(2), Num(3)}

NextHistory ==
    \/ \E k \in KeyPairs, q \in {Str("Safe nft"), Str("gas fee")}, r \in Responses,
          rnd \in RandomTokens :
            AddInteraction(k[1], k[2], q, r, undefined, rnd)
    \/ \E k \in KeyPairs, limit \in HistoryLimits : GetHistory(k[1], k[2], limit)
    \/ \E k \in KeyPairs : Clear(k[1], k[2])

SpecHistory == Init /\ [][NextHistory]_vars

\* getContext with no window size and with window sizes below and at the
\* length a log can have
ContextWindows == {undefined, Num(1), Num(2)}

NextWindow ==
    \/ \E k \in KeyPairs, q \in {Str("Safe nft"), Str("gas fee")}, r \in Responses,
          rnd \in RandomTokens :
            AddInteraction(k[1], k[2], q, r, undefined, rnd)
    \/ \E k \in KeyPairs, w \in ContextWindows : GetContext(k[1], k[2], w)
    \/ \E k \in KeyPairs : Clear(k[1], k[2])

SpecWindow == Init /\ [][NextWindow]_vars

\* one conversation whose queries name one topic, one topic twice and
\* another once, or six at once (more than getContext reports), and whose
\* intents have four types (more than getContext reports)
TopicPairs == {<<"u1", "tg">>}
TopicQueries == {Str("gas fee"), Str("Gas gas nft"),
                 Str("NFT bayc defi risk price token")}
TopicIntents == {Obj(Str("wallet_analysis")), Obj(Str("risk_assessment")),
                 Obj(Str("market_insights")), Obj(Str("general_question"))}

NextTopics ==
    \/ \E k \in TopicPairs, q \in TopicQueries, r \in Responses, rnd \in RandomTokens :
            AddTopicInteraction(k[1], k[2], q, r, Obj(Str("wallet_analysis")), rnd)
    \/ \E k \in TopicPairs, r \in Responses, i \in TopicIntents, rnd \in RandomTokens :
            AddTopicInteraction(k[1], k[2], Str("gas fee"), r, i, rnd)
    \/ \E k \in TopicPairs, w \in Windows : GetContext(k[1], k[2], w)
    \/ \E k \in TopicPairs : Clear(k[1], k[2])

SpecTopics == Init /\ [][NextTopics]_vars

\* one conversation whose queries have a risk-averse keyword, a risk-seeking
\* one, none, one of each, or are not a string
RiskQueries == {Str("Safe nft"), Str("Risky gas"), Str("gas fee"),
                Str("safe gamble"), undefined}

NextRisk ==
    \/ \E k \in TopicPairs, q \in RiskQueries, r \in Responses, rnd \in RandomTokens :
            AddInteraction(k[1], k[2], q, r, undefined, rnd)
    \/ \E k \in TopicPairs, w \in Windows : GetContext(k[1], k[2], w)
    \/ \E k \in TopicPairs : Clear(k[1], k[2])

SpecRisk == Init /\ [][NextRisk]_vars

\* one conversation whose intents are absent, null, an object without a
\* type, or an object with one of two types
IntentArgs == {undefined, null, Obj(undefined),
               Obj(Str("wallet_analysis")), Obj(Str("risk_assessment"))}
IntentQueries == {Str("gas fee"), undefined}

NextIntent ==
    \/ \E k \in TopicPairs, q \in IntentQueries, r \in Responses, i \in IntentArgs,
          rnd \in RandomTokens :
            AddInteraction(k[1], k[2], q, r, i, rnd)
    \/ \E k \in TopicPairs, w \in Windows : GetContext(k[1], k[2], w)
    \/ \E k \in TopicPairs : Clear(k[1], k[2])

SpecIntent == Init /\ [][NextIntent]_vars

\* two users, one of them on two platforms, whose interactions age by an
\* hour per clock tick and are swept with a maximum age of one hour
SweepPairs == {<<"u1", "tg">>, <<"u1", "web">>, <<"u2", "tg">>}

NextSweep ==
    \/ \E k \in SweepPairs, r \in Responses, rnd \in RandomTokens :
            AddSweepInteraction(k[1], k[2], Str("gas fee"), r, undefined, rnd)
    \/ \E k \in SweepPairs, w \in Windows : GetContext(k[1], k[2], w)
    \/ \E h \in MaxAgeHours : SweepCleanup(h)
    \/ SweepTick

SpecSweep == Init /\ [][NextSweep]_vars

-----------------------------------------------------------------------------
(* The orchestrator: src/ai/orchestrator.js *)

\* The orchestrator holds one ConversationMemory; it is modelled over the
\* nested-map implementation, the one that has cleanup. processQuery is an
\* async function: it runs from its call to its first await, and from one
\* await to the next, without interruption, and anything else may run while
\* it is suspended at an await.

\* the number of processQuery calls of a run
MaxQueries == 2
\* the number of processQuery calls of a run in which all of them are in
\* flight at once: one more than the scaled cap
MaxBurstQueries == 3
\* the number of appends, clearMemory and cleanup calls and clock ticks of a
\* run with processQuery calls
MaxQueryCalls == 3

\* userQuery.substring(0, 100) in the log line: a TypeError unless the query
\* is a string
substringThrows(userQuery) == ~HasStringMethods(userQuery)

hexDigits == {"0","1","2","3","4","5","6","7","8","9",
              "a","b","c","d","e","f","A","B","C","D","E","F"}

\* query.match(/0x[a-fA-F0-9]{40}/)
walletMatch(s) ==
    \E i \in 1..(Len(s) - 41) :
        /\ SubSeq(s, i, i + 1) = "0x"
        /\ \A j \in (i + 2)..(i + 41) : SubSeq(s, j, j) \in hexDigits

\* mockIntentAnalysis(query): the type of the intent it returns
mockIntentType(query) ==
    LET lowerQuery == toLowerCase(query)
    IN  IF walletMatch(query)
        THEN IF includes(lowerQuery, "analyz") \/ includes(lowerQuery, "check")
             THEN "wallet_analysis"
             ELSE IF includes(lowerQuery, "risk") \/ includes(lowerQuery, "safe")
             THEN "risk_assessment"
             ELSE "general_question"
        ELSE IF includes(lowerQuery, "market") \/ includes(lowerQuery, "trend")
        THEN "market_insights"
        ELSE IF \/ includes(lowerQuery, "bored ape")
                \/ includes(lowerQuery, "cryptopunk")
                \/ includes(lowerQuery, "azuki")
        THEN "collection_analysis"
        ELSE IF includes(lowerQuery, "predict") \/ includes(lowerQuery, "floor price")
        THEN "market_insights"
        ELSE "general_question"

\* mockIntentAnalysis(query); of the intent's fields the memory reads type
mockIntentAnalysis(userQuery) == Obj(Str(mockIntentType(userQuery.s)))

\* the keys of the responses object of generateDemoResponse
responseTemplates == {"wallet_analysis", "collection_analysis", "market_insights",
                      "risk_assessment", "general_question"}

\* responses[intent.type] || responses.general_question: the template chosen
templateOf(intent) ==
    LET type == TypeOf(intent)
    IN  IF type.js = "string" /\ type.s \in responseTemplates THEN type.s
        ELSE "general_question"

\* generateDemoResponse(query, intent, context): the template, and the line
\* on the previous conversations when the context has history
generateDemoResponse(userQuery, intent, context) ==
    Str(templateOf(intent)
        \o (IF context.hasHistory
            THEN " | I remember our previous "
                 \o ToString(context.totalInteractions) \o " conversations"
            ELSE ""))

\* the objects processQuery returns
normalResult(response, intent, demoMode) ==
    [response |-> response, intent |-> intent, error |-> undefined,
     demoMode |-> demoMode]
errorResult(demoMode) ==
    [response |-> Str("I apologize, but I encountered an error"),
     intent |-> Obj(Str("error")), error |-> Bool(TRUE), demoMode |-> demoMode]

\* a processQuery call: its arguments, the await it is suspended at or
\* "returned", its locals, the object it resolved with; before is the number
\* of interactions the pair's log had been given when the call read its
\* context, generation says where its response came from
QueryCall(userQuery, userId, platform, pc, result) ==
    [userQuery |-> userQuery, userId |-> userId, platform |-> platform,
     pc |-> pc, intent |-> None, context |-> None, response |-> None,
     result |-> result, before |-> 0, generation |-> "none"]

\* the interactions given to the log of a pair since it was created
Appended(k) == IF MapHas(appendedBy, k) THEN appendedBy[k] ELSE <<>>

\* ProcessQuery that creates the pair's platform memory before the log line
\* that throws
ProcessQueryCreatesLog(userQuery, userId, platform) ==
    /\ inflight' =
          Append(inflight,
                 IF substringThrows(userQuery)
                 THEN QueryCall(userQuery, userId, platform, "returned",
                                errorResult(isDemoMode))
                 ELSE QueryCall(userQuery, userId, platform, "analyzeIntent", None))
    /\ memory' = IF hasPlatform(memory, userId, platform) THEN memory
                 ELSE MapSet(memory, userId,
                             MapSet(IF MapHas(memory, userId) THEN memory[userId]
                                    ELSE EmptyMap,
                                    platform, newPlatformMemory))
    /\ UNCHANGED <<conversations, now, exported, ret, trail, trailFlat,
                   swept, lastSteps, calls, isDemoMode, appendedBy>>

\* processQuery(userQuery, userId, platform) from its call to the await of
\* analyzeIntent, or to the catch block when the log line throws
ProcessQueryCall(userQuery, userId, platform) ==
    /\ inflight' =
          Append(inflight,
                 IF substringThrows(userQuery)
                 THEN QueryCall(userQuery, userId, platform, "returned",
                                errorResult(isDemoMode))
                 ELSE QueryCall(userQuery, userId, platform, "analyzeIntent", None))
    /\ UNCHANGED <<conversations, memory, now, exported, ret, trail, trailFlat,
                   swept, lastSteps, calls, isDemoMode, appendedBy>>

\* AnalyzeIntentReturns with a context that counts the turn being processed
AnalyzeIntentReturnsCountsItself(c, completion) ==
    /\ c \in 1..Len(inflight)
    /\ inflight[c].pc = "analyzeIntent"
    /\ isDemoMode => completion = None
    /\ LET q == inflight[c]
           intent == IF completion = None THEN mockIntentAnalysis(q.userQuery)
                     ELSE completion
           context == getContextNested(memory, q.userId, q.platform)
       IN  inflight' =
              [inflight EXCEPT ![c] =
                  [q EXCEPT !.pc = "generateResponse",
                            !.intent = intent,
                            !.context =
                                [context EXCEPT
                                    !.hasHistory = TRUE,
                                    !.totalInteractions = @ + 1],
                            !.before = Len(Appended(<<q.userId, q.platform>>))]]
    /\ UNCHANGED <<conversations, memory, now, exported, ret, trail, trailFlat,
                   swept, lastSteps, calls, isDemoMode, appendedBy>>

\* call c from the await of analyzeIntent to the await of generateResponse:
\* analyzeIntent resolves with the intent the model returned (completion), or
\* with mockIntentAnalysis in demo mode and when the request or JSON.parse
\* failed (completion = None); then memory.getContext
AnalyzeIntentReturns(c, completion) ==
    /\ c \in 1..Len(inflight)
    /\ inflight[c].pc = "analyzeIntent"
    /\ isDemoMode => completion = None
    /\ LET q == inflight[c]
           intent == IF completion = None THEN mockIntentAnalysis(q.userQuery)
                     ELSE completion
       IN  inflight' =
              [inflight EXCEPT ![c] =
                  [q EXCEPT !.pc = "generateResponse",
                            !.intent = intent,
                            !.context = getContextNested(memory, q.userId, q.platform),
                            !.before = Len(Appended(<<q.userId, q.platform>>))]]
    /\ UNCHANGED <<conversations, memory, now, exported, ret, trail, trailFlat,
                   swept, lastSteps, calls, isDemoMode, appendedBy>>

\* GenerateResponseReturns with the append left out when the request to the
\* model failed
GenerateResponseReturnsDropsFallback(c, content, rnd) ==
    /\ c \in 1..Len(inflight)
    /\ inflight[c].pc = "generateResponse"
    /\ isDemoMode => content = None
    /\ LET q == inflight[c]
           pair == <<q.userId, q.platform>>
           response == IF content = None
                       THEN generateDemoResponse(q.userQuery, q.intent, q.context)
                       ELSE content
           failed == ~isDemoMode /\ content = None
       IN  /\ memory' = IF failed THEN memory
                        ELSE addInteractionNested(memory, q.userId, q.platform,
                                                  q.userQuery, response, q.intent,
                                                  now, rnd)
           /\ ret' = Call("addInteraction", q.userId, q.platform,
                          [userQuery |-> q.userQuery, aiResponse |-> response,
                           intent |-> q.intent],
                          None, undefined)
           /\ trail' = IF failed THEN trail
                       ELSE MapSet(trail, pair,
                                   Append(IF MapHas(trail, pair) THEN trail[pair]
                                          ELSE <<>>,
                                          Turn(q.userQuery, response, q.intent, now)))
           /\ appendedBy' = IF failed THEN appendedBy
                            ELSE MapSet(appendedBy, pair, Append(Appended(pair), c))
           /\ inflight' =
                 [inflight EXCEPT ![c] =
                     [q EXCEPT !.pc = "returned",
                               !.response = response,
                               !.result = normalResult(response, q.intent, isDemoMode),
                               !.generation =
                                   IF isDemoMode THEN "template"
                                   ELSE IF content = None THEN "fallback"
                                   ELSE "model"]]
    /\ lastSteps' = Remember(Step("addInteraction", inflight[c].userId,
                                  inflight[c].platform, NoLog))
    /\ calls' = calls + 1
    /\ UNCHANGED <<conversations, now, exported, trailFlat, swept, isDemoMode>>

\* call c from the await of generateResponse to its return: generateResponse
\* resolves with the text the model returned (content), or with
\* generateDemoResponse in demo mode and when the request failed
\* (content = None); then memory.addInteraction, which catches what it
\* throws, and the return of the result
GenerateResponseReturns(c, content, rnd) ==
    /\ c \in 1..Len(inflight)
    /\ inflight[c].pc = "generateResponse"
    /\ isDemoMode => content = None
    /\ LET q == inflight[c]
           pair == <<q.userId, q.platform>>
           response == IF content = None
                       THEN generateDemoResponse(q.userQuery, q.intent, q.context)
                       ELSE content
       IN  /\ memory' = addInteractionNested(memory, q.userId, q.platform,
                                             q.userQuery, response, q.intent,
                                             now, rnd)
           /\ ret' = Call("addInteraction", q.userId, q.platform,
                          [userQuery |-> q.userQuery, aiResponse |-> response,
                           intent |-> q.intent],
                          None, undefined)
           /\ trail' = MapSet(trail, pair,
                              Append(IF MapHas(trail, pair) THEN trail[pair]
                                     ELSE <<>>,
                                     Turn(q.userQuery, response, q.intent, now)))
           /\ appendedBy' = MapSet(appendedBy, pair, Append(Appended(pair), c))
           /\ inflight' =
                 [inflight EXCEPT ![c] =
                     [q EXCEPT !.pc = "returned",
                               !.response = response,
                               !.result = normalResult(response, q.intent, isDemoMode),
                               !.generation =
                                   IF isDemoMode THEN "template"
                                   ELSE IF content = None THEN "fallback"
                                   ELSE "model"]]
    /\ lastSteps' = Remember(Step("addInteraction", inflight[c].userId,
                                  inflight[c].platform, NoLog))
    /\ calls' = calls + 1
    /\ UNCHANGED <<conversations, now, exported, trailFlat, swept, isDemoMode>>

\* clearMemory that also drops the calls in flight for the pair: they resolve
\* with the error result and append nothing
ClearMemoryCancels(userId, platform) ==
    /\ calls < MaxQueryCalls
    /\ conversations' = clearFlat(conversations, userId, platform)
    /\ exported' = exportedAfterClear(exported, getMemoryKey(userId, platform))
    /\ memory' = clearNested(memory, userId, platform)
    /\ ret' = Call("clear", userId, platform, None,
                   Bool(clearFlatResult(conversations, userId, platform)),
                   clearNestedResult(memory, userId, platform))
    /\ trail' = MapDelete(trail, <<userId, platform>>)
    /\ trailFlat' = MapDelete(trailFlat, getMemoryKey(userId, platform))
    /\ swept' = swept \ {<<userId, platform>>}
    /\ lastSteps' = Remember(Step("clear", userId, platform,
                                   [flat |-> MapHas(conversations,
                                                    getMemoryKey(userId, platform)),
                                    nested |-> hasPlatform(memory, userId, platform)]))
    /\ calls' = calls + 1
    /\ appendedBy' = MapDelete(appendedBy, <<userId, platform>>)
    /\ inflight' =
          [c \in 1..Len(inflight) |->
              IF /\ inflight[c].pc # "returned"
                 /\ inflight[c].userId = userId
                 /\ inflight[c].platform = platform
              THEN [inflight[c] EXCEPT !.pc = "returned",
                                       !.result = errorResult(isDemoMode)]
              ELSE inflight[c]]
    /\ UNCHANGED <<now, isDemoMode>>

\* processQuery as one of the MaxQueries calls of a run, and as one of the
\* MaxBurstQueries calls of a burst
ProcessQuery(userQuery, userId, platform) ==
    Len(inflight) < MaxQueries /\ ProcessQueryCall(userQuery, userId, platform)
ProcessBurstQuery(userQuery, userId, platform) ==
    Len(inflight) < MaxBurstQueries /\ ProcessQueryCall(userQuery, userId, platform)

\* clearMemory(userId, platform): memory.clear and a log line
ClearMemory(userId, platform) ==
    calls < MaxQueryCalls /\ ClearCall(userId, platform)

\* cleanup and a clock tick while processQuery calls are in flight
QueryCleanup(maxAgeHours) == calls < MaxQueryCalls /\ CleanupCall(maxAgeHours)
QueryTick == calls < MaxQueryCalls /\ TickCall

\* an orchestrator in demo mode, or with a key for a provider
InitOrchestrator ==
    /\ conversations = EmptyMap
    /\ memory = EmptyMap
    /\ now = 0
    /\ exported = None
    /\ ret = Call("new", "", "", None, None, None)
    /\ trail = EmptyMap
    /\ trailFlat = EmptyMap
    /\ swept = {}
    /\ lastSteps = <<>>
    /\ calls = 0
    /\ isDemoMode \in BOOLEAN
    /\ inflight = <<>>
    /\ appendedBy = EmptyMap

\* the calls of one user on one platform; a query that is not a string
QueryPairs == {<<"u1", "tg">>}
UserQueries == {Str("Safe market"), undefined}
\* what the model may answer: an intent; a text, or a message whose content
\* is null
Completions == {Obj(Str("risk_assessment"))}
Contents == {Str("ok"), null}

NextQueries ==
    \/ \E k \in QueryPairs, q \in UserQueries : ProcessQuery(q, k[1], k[2])
    \/ \E c \in 1..MaxQueries, i \in Completions \cup {None} :
            AnalyzeIntentReturns(c, i)
    \/ \E c \in 1..MaxQueries, r \in Contents \cup {None}, rnd \in RandomTokens :
            GenerateResponseReturns(c, r, rnd)
    \/ \E k \in QueryPairs : ClearMemory(k[1], k[2])

SpecQueries == InitOrchestrator /\ [][NextQueries]_vars

\* a burst of calls for one pair, more than the cap, with nothing else going
\* on
NextBurst ==
    \/ \E k \in QueryPairs : ProcessBurstQuery(Str("Safe market"), k[1], k[2])
    \/ \E c \in 1..MaxBurstQueries : AnalyzeIntentReturns(c, None)
    \/ \E c \in 1..MaxBurstQueries, r \in {Str("ok"), None}, rnd \in RandomTokens :
            GenerateResponseReturns(c, r, rnd)

SpecBurst == InitOrchestrator /\ [][NextBurst]_vars

\* an orchestrator in demo mode whose memory is swept while calls are in
\* flight and time passes
NextQuerySweep ==
    \/ \E k \in QueryPairs : ProcessQuery(Str("Safe market"), k[1], k[2])
    \/ \E c \in 1..MaxQueries : AnalyzeIntentReturns(c, None)
    \/ \E c \in 1..MaxQueries, rnd \in RandomTokens :
            GenerateResponseReturns(c, None, rnd)
    \/ \E k \in QueryPairs : ClearMemory(k[1], k[2])
    \/ \E h \in MaxAgeHours : QueryCleanup(h)
    \/ QueryTick

SpecQuerySweep == Init /\ [][NextQuerySweep]_vars

-----------------------------------------------------------------------------
(* Properties *)

nestedLog(k) == memory[k[1]][k[2]]

\* a stored interaction holds what the append was given, the intent after its
\* default, and the time of the append
SameTurn(interaction, turn, defaultIntent) ==
    /\ interaction.userQuery = turn.userQuery
    /\ interaction.aiResponse = turn.aiResponse
    /\ interaction.intent = DefaultParam(turn.intent, defaultIntent)
    /\ interaction.timestamp = toISOString(turn.at)

\* the last n entries of log are the last n turns of turns, in their order
LastTurns(log, turns, n, defaultIntent) ==
    /\ Len(log) = n
    /\ Len(turns) >= n
    /\ \A j \in 1..n : SameTurn(log[j], turns[Len(turns) - n + j], defaultIntent)

\* the last call was an addInteraction and nothing, not even time, has
\* moved since: ret holds its arguments and now is the time it ran at
JustAppended ==
    /\ ret.op = "addInteraction"
    /\ lastSteps # <<>>
    /\ lastSteps[Len(lastSteps)] = Step("addInteraction", ret.userId, ret.platform, NoLog)

\* C1: in every state, whatever userQuery the appends were given, no key of
\* either implementation stores more interactions than its cap.
C1_LogWithinCap ==
    /\ \A k \in storedKeys(memory) :
          Len(nestedLog(k).interactions) <= maxInteractionsPerUser
    /\ \A key \in DOMAIN conversations :
          Len(conversations[key].interactions) <= maxHistoryPerUser

\* C2: once more than cap interactions were appended to a key with no clear
\* or sweep in between, getHistory(key, cap + 10) returns exactly cap
\* interactions: the last cap appended, in the order they were appended.
C2_CapKeepsLastAppended ==
    /\ \A k \in storedKeys(memory) :
          (k \notin swept /\ Len(trail[k]) > maxInteractionsPerUser)
          => LastTurns(getHistoryNested(memory, k[1], k[2], maxInteractionsPerUser + 10),
                       trail[k], maxInteractionsPerUser, Obj(undefined))
    /\ \A k \in AllKeyPairs :
          LET key == getMemoryKey(k[1], k[2])
          IN  (MapHas(conversations, key) /\ Len(trailFlat[key]) > maxHistoryPerUser)
              => LastTurns(getHistoryFlat(conversations, k[1], k[2], maxHistoryPerUser + 10),
                           trailFlat[key], maxHistoryPerUser, null)

\* C3: for every key that has a log, totalInteractions is at least the number
\* of interactions the log stores, in both implementations.
C3_CounterCoversLog ==
    /\ \A k \in storedKeys(memory) :
          nestedLog(k).context.totalInteractions >= Len(nestedLog(k).interactions)
    /\ \A key \in DOMAIN conversations :
          conversations[key].metadata.totalInteractions
              >= Len(conversations[key].interactions)

\* C4: after n addInteraction calls on a key since its log was created,
\* getContext reports totalInteractions = n, also when n is above the cap and
\* the log has been truncated.
C4_CounterCountsAppends ==
    /\ \A k \in storedKeys(memory) :
          getContextNested(memory, k[1], k[2]).totalInteractions = Len(trail[k])
    /\ \A k \in AllKeyPairs :
          LET key == getMemoryKey(k[1], k[2])
          IN  MapHas(conversations, key)
              => getContextFlat(conversations, k[1], k[2], 5).totalInteractions
                     = Num(Len(trailFlat[key]))

\* C4 witness: a key that took more appends than its cap, whose log holds
\* cap interactions and whose counter is the number of appends.
C4_Witness ==
    \E k \in storedKeys(memory) :
        /\ Len(trail[k]) > maxInteractionsPerUser
        /\ Len(nestedLog(k).interactions) = maxInteractionsPerUser
        /\ getContextNested(memory, k[1], k[2]).totalInteractions = Len(trail[k])

\* C5: right after addInteraction(userId, platform, q, r, i),
\* getHistory(userId, platform, 1) returns exactly one interaction, and it
\* holds q, r and i (the parameter's default when no intent was passed); in
\* the flat implementation whenever the call returned.
C5_AppendReadRoundTrip ==
    JustAppended
    => LET turn == Turn(ret.arg.userQuery, ret.arg.aiResponse, ret.arg.intent, now)
       IN  /\ LastTurns(getHistoryNested(memory, ret.userId, ret.platform, 1),
                        <<turn>>, 1, Obj(undefined))
           /\ ret.flat # TypeError
              => LastTurns(getHistoryFlat(conversations, ret.userId, ret.platform, 1),
                           <<turn>>, 1, null)

\* C5 witness: an append of a passed intent to a log that already held an
\* interaction with another query, read back as the last one.
C5_Witness ==
    /\ JustAppended
    /\ ret.arg.intent # undefined
    /\ LET log == nestedLog(<<ret.userId, ret.platform>>).interactions
       IN  /\ Len(log) >= 2
           /\ log[Len(log) - 1].userQuery # ret.arg.userQuery
           /\ getHistoryNested(memory, ret.userId, ret.platform, 1)[1].userQuery
                  = ret.arg.userQuery

\* what the two implementations answer for a pair
Answers(convs, mem, k) ==
    [contextFlat |-> getContextFlat(convs, k[1], k[2], 5),
     historyFlat |-> getHistoryFlat(convs, k[1], k[2], 10),
     contextNested |-> getContextNested(mem, k[1], k[2]),
     historyNested |-> getHistoryNested(mem, k[1], k[2], 10)]

\* the step is a call of op, not a tick that leaves an earlier ret in place
IsCall(op) == ret'.op = op /\ calls' = calls + 1 /\ now' = now

\* C6: an append to one (userId, platform) pair leaves getContext and
\* getHistory of every other pair as they were, in both implementations.
C6_AppendIsolated ==
    [][IsCall("addInteraction")
       => \A k \in AllKeyPairs :
             k # <<ret'.userId, ret'.platform>>
             => Answers(conversations', memory', k) = Answers(conversations, memory, k)]_vars

\* C7: clear returns whether the key had a log; after it getContext reports
\* hasHistory = false and getHistory is empty; a clear right after a clear of
\* the same key returns false and changes nothing.
C7_ClearReportsRemoval ==
    [][IsCall("clear")
       => LET u == ret'.userId
              p == ret'.platform
              after == Answers(conversations', memory', <<u, p>>)
          IN  /\ ret'.flat = Bool(MapHas(conversations, getMemoryKey(u, p)))
              /\ ret'.nested = Bool(hasPlatform(memory, u, p))
              /\ ~after.contextFlat.hasHistory
              /\ ~after.contextNested.hasHistory
              /\ after.historyFlat = <<>>
              /\ after.historyNested = <<>>
              /\ (lastSteps # <<>> /\ lastSteps[Len(lastSteps)].op = "clear"
                  /\ lastSteps[Len(lastSteps)].userId = u
                  /\ lastSteps[Len(lastSteps)].platform = p)
                 => /\ ret'.flat = Bool(FALSE)
                    /\ ret'.nested = Bool(FALSE)
                    /\ conversations' = conversations
                    /\ memory' = memory]_vars

\* the last two state-changing steps were clear(k) and then addInteraction(k)
ClearedThenAppended ==
    /\ JustAppended
    /\ Len(lastSteps) = 2
    /\ lastSteps[1].op = "clear"
    /\ lastSteps[1].userId = ret.userId
    /\ lastSteps[1].platform = ret.platform

\* C8: after clear(k) and one addInteraction on k, the key's log and every
\* statistic are those the same addInteraction leaves in an empty store:
\* totalInteractions is 1, the topic and intent-type counts are those of the
\* new interaction, the risk tolerance is computed from 'unknown'.
C8_ClearLeavesNothing ==
    ClearedThenAppended
    => LET u == ret.userId
           p == ret.platform
           a == ret.arg
           key == getMemoryKey(u, p)
           freshFlat == addInteractionFlat(EmptyMap, u, p,
                                           a.userQuery, a.aiResponse, a.intent, now)
       IN  /\ getContextNested(memory, u, p).totalInteractions = 1
           /\ \E rnd \in RandomTokens :
                 LET fresh == addInteractionNested(EmptyMap, u, p, a.userQuery,
                                                   a.aiResponse, a.intent, now, rnd)
                 IN  /\ memory[u][p] = fresh[u][p]
                     /\ getContextNested(memory, u, p) = getContextNested(fresh, u, p)
           /\ conversations[key] = freshFlat[key]
           /\ getContextFlat(conversations, u, p, 5) = getContextFlat(freshFlat, u, p, 5)

\* C8 witness: a clear that removed a log, then an append of a query with no
\* risk keyword: the risk tolerance is 'moderate', the value reached from
\* 'unknown', and the counter is 1.
C8_Witness ==
    /\ ClearedThenAppended
    /\ lastSteps[1].removed.nested
    /\ lastSteps[1].removed.flat
    /\ getContextNested(memory, ret.userId, ret.platform).riskTolerance = "moderate"
    /\ getContextNested(memory, ret.userId, ret.platform).totalInteractions = 1
    /\ getContextNested(memory, ret.userId, ret.platform).commonTopics = <<"gas">>

\* C9: every stored log holds at least one interaction and was appended to
\* since it was created, and getContext reports hasHistory = true exactly
\* for the keys that have a log.
C9_LogsAreNonEmpty ==
    /\ \A k \in storedKeys(memory) :
          /\ Len(nestedLog(k).interactions) >= 1
          /\ Len(trail[k]) >= 1
    /\ \A key \in DOMAIN conversations :
          /\ Len(conversations[key].interactions) >= 1
          /\ Len(trailFlat[key]) >= 1
    /\ \A k \in AllKeyPairs :
          /\ getContextNested(memory, k[1], k[2]).hasHistory
                = hasPlatform(memory, k[1], k[2])
          /\ getContextFlat(conversations, k[1], k[2], 5).hasHistory
                = MapHas(conversations, getMemoryKey(k[1], k[2]))

\* C10: for a key with no log, getContext returns hasHistory = false,
\* totalInteractions = 0 and empty recentInteractions, topics and intent
\* types, and getHistory returns the empty sequence, in both implementations.
C10_UnknownKeyIsEmpty ==
    \A k \in AllKeyPairs :
        /\ ~hasPlatform(memory, k[1], k[2])
           => LET c == getContextNested(memory, k[1], k[2])
              IN  /\ ~c.hasHistory
                  /\ c.totalInteractions = 0
                  /\ c.recentInteractions = <<>>
                  /\ c.commonTopics = <<>>
                  /\ c.preferredAnalysisTypes = <<>>
                  /\ getHistoryNested(memory, k[1], k[2], 10) = <<>>
        /\ ~MapHas(conversations, getMemoryKey(k[1], k[2]))
           => LET c == getContextFlat(conversations, k[1], k[2], 5)
              IN  /\ ~c.hasHistory
                  /\ c.totalInteractions = Num(0)
                  /\ c.recentInteractions = <<>>
                  /\ getHistoryFlat(conversations, k[1], k[2], 10) = <<>>

\* the invariants of the data model on a pair of stores: a stored log is
\* not empty, is within its cap and is covered by its counter
DataModelInvariants(convs, mem) ==
    /\ \A k \in storedKeys(mem) :
          LET pm == mem[k[1]][k[2]]
          IN  /\ Len(pm.interactions) >= 1
              /\ Len(pm.interactions) <= maxInteractionsPerUser
              /\ pm.context.totalInteractions >= Len(pm.interactions)
    /\ \A key \in DOMAIN convs :
          /\ Len(convs[key].interactions) >= 1
          /\ Len(convs[key].interactions) <= maxHistoryPerUser
          /\ convs[key].metadata.totalInteractions >= Len(convs[key].interactions)

\* C11: every call of addInteraction, getContext, getHistory, clear and
\* cleanup, also with an empty userId, platform or query and with a query
\* that is not a string, returns without throwing in both implementations,
\* leaves stores that satisfy the data-model invariants, and leaves the
\* answers for every other pair, empty-string pairs included, as they were.
\* (getHistory has no statement that can throw: its result is a sequence.)
C11_OperationsAreTotal ==
    [][(calls' = calls + 1 \/ ret' # ret) /\ now' = now
       => /\ ret'.op # "getHistory"
             => (ret'.flat # TypeError /\ ret'.nested # TypeError)
          /\ DataModelInvariants(conversations', memory')
          /\ ret'.op \in {"addInteraction", "clear"}
             => \A k \in TotalKeyPairs :
                   k # <<ret'.userId, ret'.platform>>
                   => Answers(conversations', memory', k)
                          = Answers(conversations, memory, k)]_vars

Min(a, b) == IF a <= b THEN a ELSE b

\* the last n entries of log, oldest first
LastOf(log, n) == SubSeq(log, Len(log) - n + 1, Len(log))

\* C12: getHistory(key, limit) with limit >= 0 on a log of length L returns
\* exactly min(limit, L) interactions, the last ones of the log, oldest
\* first; with limit = 0 it returns the empty sequence; without a limit it
\* returns as with limit = 10.
C12_HistoryReturnsLastLimit ==
    ret.op = "getHistory"
    => LET limit == IF ret.arg.limit = undefined THEN 10 ELSE ret.arg.limit.n
           key == getMemoryKey(ret.userId, ret.platform)
           logNested == IF hasPlatform(memory, ret.userId, ret.platform)
                        THEN memory[ret.userId][ret.platform].interactions ELSE <<>>
           logFlat == IF MapHas(conversations, key)
                      THEN conversations[key].interactions ELSE <<>>
       IN  /\ ret.nested = LastOf(logNested, Min(limit, Len(logNested)))
           /\ ret.flat = LastOf(logFlat, Min(limit, Len(logFlat)))
           /\ limit = 0 => (ret.nested = <<>> /\ ret.flat = <<>>)

\* C13: getContext(key, windowSize) returns in recentInteractions at most
\* windowSize interactions, the last ones of the log with the most recent
\* last; without a windowSize it returns as with windowSize = 10.
C13_ContextWindowIsArgument ==
    ret.op = "getContext"
    => LET windowSize == IF ret.arg.windowSize = undefined THEN 10
                         ELSE ret.arg.windowSize.n
           key == getMemoryKey(ret.userId, ret.platform)
           logNested == IF hasPlatform(memory, ret.userId, ret.platform)
                        THEN memory[ret.userId][ret.platform].interactions ELSE <<>>
           logFlat == IF MapHas(conversations, key)
                      THEN conversations[key].interactions ELSE <<>>
       IN  /\ Len(ret.nested.recentInteractions) <= windowSize
           /\ ret.nested.recentInteractions
                  = LastOf(logNested, Min(windowSize, Len(logNested)))
           /\ Len(ret.flat.recentInteractions) <= windowSize
           /\ ret.flat.recentInteractions
                  = LastOf(logFlat, Min(windowSize, Len(logFlat)))

\* C14: a getContext or getHistory call changes nothing in either store: every
\* pair's log, counters, topic and intent-type counts, risk tolerance and
\* last interaction time stay as they were and no pair is added or removed.
C14_ReadsArePure ==
    [][(ret'.op \in {"getContext", "getHistory"} /\ calls' = calls /\ now' = now)
       => /\ memory' = memory
          /\ conversations' = conversations
          /\ storedKeys(memory') = storedKeys(memory)
          /\ DOMAIN conversations' = DOMAIN conversations]_vars

\* C14 witness: a getContext has answered for a pair without a log while
\* another pair has one with topic counts, and neither store holds the pair.
C14_Witness ==
    /\ ret.op = "getContext"
    /\ ~hasPlatform(memory, ret.userId, ret.platform)
    /\ ~MapHas(conversations, getMemoryKey(ret.userId, ret.platform))
    /\ ~ret.nested.hasHistory
    /\ \E k \in storedKeys(memory) :
          /\ nestedLog(k).context.commonTopics # <<>>
          /\ MapHas(conversations, getMemoryKey(k[1], k[2]))

\* the topics a turn's query matched and the intent type it carried, in the
\* order in which the append counts them; the append of a query that is not
\* a string counts nothing
TopicListOfTurn(turn) ==
    IF HasStringMethods(turn.userQuery) THEN extractTopics(turn.userQuery) ELSE <<>>
TypeListOfTurn(turn) ==
    IF /\ HasStringMethods(turn.userQuery)
       /\ turn.intent.js = "object"
       /\ Truthy(turn.intent.type)
    THEN <<turn.intent.type>> ELSE <<>>

\* lists[i] is what turn i counted: the position of the last turn that has x
LastSeen(lists, x) ==
    CHOOSE i \in 1..Len(lists) :
        /\ x \in Range(lists[i])
        /\ \A j \in (i + 1)..Len(lists) : x \notin Range(lists[j])

\* the position of the first turn that has x, and the position of x in it
FirstSeen(lists, x) ==
    CHOOSE i \in 1..Len(lists) :
        /\ x \in Range(lists[i])
        /\ \A j \in 1..(i - 1) : x \notin Range(lists[j])

PositionIn(seq, x) == CHOOSE i \in 1..Len(seq) : seq[i] = x

\* top holds min(cap, number of entries) keys of entries, each standing
\* before the next and before every key left out, where x stands before y
\* when its count is larger, or equal and before[x][y]
RankedTop(top, entries, cap, before) ==
    LET keys == {entries[i].key : i \in 1..Len(entries)}
        count == [x \in keys |-> OrdCount(entries, x)]
        Precedes(x, y) == \/ count[x] > count[y]
                          \/ (count[x] = count[y] /\ before[x][y])
    IN  /\ Len(top) = Min(cap, Len(entries))
        /\ Range(top) \subseteq keys
        /\ \A i, j \in 1..Len(top) : i < j => top[i] # top[j]
        /\ \A i, j \in 1..Len(top) : i < j => Precedes(top[i], top[j])
        /\ \A x \in Range(top), y \in keys \ Range(top) : Precedes(x, y)

\* x was seen in an append at least as recent as the last that had y
SeenNoEarlier(entries, lists) ==
    LET keys == {entries[i].key : i \in 1..Len(entries)}
        last == [x \in keys |-> LastSeen(lists, x)]
    IN  [x \in keys |-> [y \in keys |-> last[x] >= last[y]]]

\* x was counted for the first time before y was
CountedFirst(entries, lists) ==
    LET keys == {entries[i].key : i \in 1..Len(entries)}
        first == [x \in keys |-> FirstSeen(lists, x)]
        pos == [x \in keys |-> PositionIn(lists[first[x]], x)]
    IN  [x \in keys |->
            [y \in keys |-> \/ first[x] < first[y]
                            \/ (first[x] = first[y] /\ pos[x] < pos[y])]]

TopicLists(turns) == [i \in 1..Len(turns) |-> TopicListOfTurn(turns[i])]
TypeLists(turns) == [i \in 1..Len(turns) |-> TypeListOfTurn(turns[i])]

Vocabulary == Range(collections) \cup Range(analysisTypes) \cup Range(blockchainTerms)

\* the queries of the turns in lower case; a query that is not a string has
\* no substring
LowerQueries(turns) ==
    [i \in 1..Len(turns) |->
        IF HasStringMethods(turns[i].userQuery)
        THEN toLowerCase(turns[i].userQuery.s) ELSE ""]

\* for each topic, the number of queries that have it as a substring
CountMatches(lower) ==
    [T \in Vocabulary |-> Cardinality({i \in 1..Len(lower) : includes(lower[i], T)})]

\* for each topic, the number of turns whose query has it as a substring,
\* whatever the case of its letters
MatchCounts(turns) == CountMatches(LowerQueries(turns))

\* T is not in top, or stands behind U in it
RankedBelow(top, T, U) ==
    /\ U \in Range(top)
    /\ T \in Range(top) => PositionIn(top, U) < PositionIn(top, T)

\* entries count every topic as matched does, once per topic, and top ranks
\* no topic that matched in all N turns below one that matched in fewer
CountsAgree(entries, matched, top, N) ==
    LET keys == {entries[i].key : i \in 1..Len(entries)}
    IN  /\ \A T \in Vocabulary : OrdCount(entries, T) = matched[T]
        /\ \A i, j \in 1..Len(entries) : i # j => entries[i].key # entries[j].key
        /\ \A T, U \in keys :
              (matched[T] = N /\ matched[U] < N)
              => /\ OrdCount(entries, T) >= OrdCount(entries, U)
                 /\ ~RankedBelow(top, T, U)

\* C16: the stored count of a topic is the number of queries appended to the
\* key since its log was created in which the topic matched, once per query
\* and whatever the cap has evicted; a topic that matched in every append has
\* a count at least that of a topic that matched in fewer, and getContext
\* never ranks it below that topic.
C16_TopicCountIsMatchingAppends ==
    \A k \in storedKeys(memory) :
        CountsAgree(nestedLog(k).context.commonTopics, MatchCounts(trail[k]),
                    getContextNested(memory, k[1], k[2]).commonTopics, Len(trail[k]))

\* C16 witness: a key took more appends than its cap; a topic that matched
\* in all of them has their number as its count and leads the topics, ahead
\* of a topic that was counted before it and matched in one; a topic that
\* occurs twice in each of two queries has the count 2.
C16_Witness ==
    \E k \in storedKeys(memory) :
        LET entries == nestedLog(k).context.commonTopics
            top == getContextNested(memory, k[1], k[2]).commonTopics
        IN  /\ Len(trail[k]) = 3
            /\ Len(trail[k]) > maxInteractionsPerUser
            /\ Len(nestedLog(k).interactions) = maxInteractionsPerUser
            /\ trail[k][2].userQuery = Str("Gas gas nft")
            /\ trail[k][3].userQuery = Str("Gas gas nft")
            /\ OrdCount(entries, "nft") = 3
            /\ OrdCount(entries, "gas") = 2
            /\ OrdCount(entries, "bayc") = 1
            /\ entries[1].key = "bayc"
            /\ top[1] = "nft"

\* the number of terms that occur in a query, whatever the case of its
\* letters; a query that is not a string has no keyword
Score(terms, userQuery) ==
    IF HasStringMethods(userQuery)
    THEN Cardinality({i \in 1..Len(terms) :
                         includes(toLowerCase(userQuery.s), terms[i])})
    ELSE 0

\* the class of a query: that of the larger score, "none" for equal scores
RiskClass(userQuery) ==
    LET conservative == Score(riskAverseTerms, userQuery)
        aggressive == Score(riskSeekingTerms, userQuery)
    IN  IF conservative > aggressive THEN "conservative"
        ELSE IF aggressive > conservative THEN "aggressive"
        ELSE "none"

\* the class of the last turn that has one, "moderate" when no turn has
RECURSIVE LastRiskClass(_)
LastRiskClass(turns) ==
    IF turns = <<>> THEN "moderate"
    ELSE IF RiskClass(turns[Len(turns)].userQuery) # "none"
    THEN RiskClass(turns[Len(turns)].userQuery)
    ELSE LastRiskClass(SubSeq(turns, 1, Len(turns) - 1))

\* C17: an addInteraction sets the key's risk tolerance to 'conservative'
\* when the query's conservative score is the larger, to 'aggressive' when
\* its aggressive score is the larger, and with equal scores to 'moderate'
\* when it was 'unknown' and leaves it otherwise; so after the appends to a
\* key it is the class of the most recent query with unequal scores, or
\* 'moderate' when there is none.
C17_RiskFollowsLastScoredQuery ==
    [][IsCall("addInteraction")
       => LET u == ret'.userId
              p == ret'.platform
              before == getContextNested(memory, u, p).riskTolerance
              after == getContextNested(memory', u, p).riskTolerance
              class == RiskClass(ret'.arg.userQuery)
          IN  /\ class # "none" => after = class
              /\ (class = "none" /\ before = "unknown") => after = "moderate"
              /\ (class = "none" /\ before # "unknown") => after = before
              /\ after = LastRiskClass(trail'[<<u, p>>])]_vars

\* the intent types the test inputs carry
IntentTypes == {Str("wallet_analysis"), Str("risk_assessment")}

\* an intent that is an object with a type
HasType(intent) == intent.js = "object" /\ Truthy(intent.type)

\* the counters of a pair in the nested store, 0 when it has no log
TypeCountOf(mem, u, p, type) ==
    IF hasPlatform(mem, u, p)
    THEN OrdCount(mem[u][p].context.preferredAnalysisTypes, type) ELSE 0
TotalOf(mem, u, p) ==
    IF hasPlatform(mem, u, p) THEN mem[u][p].context.totalInteractions ELSE 0

\* the counter and the intent types of a key in the flat store
FlatTotalOf(convs, key) ==
    IF MapHas(convs, key) THEN convs[key].metadata.totalInteractions ELSE 0
FlatTypesOf(convs, key) ==
    IF MapHas(convs, key) THEN Range(convs[key].metadata.preferredTopics) ELSE {}

\* C18: an addInteraction whose intent is absent, null or without a type
\* stores the interaction, adds 1 to totalInteractions and changes no
\* intent-type count; one whose intent has a type does the same and adds 1 to
\* the count of exactly that type; after two appends with two distinct types
\* to a key getContext reports totalInteractions 2, hasHistory true and both
\* types among the top intent types.
C18_IntentCountsOnlyTypedIntents ==
    [][IsCall("addInteraction")
       => LET u == ret'.userId
              p == ret'.platform
              key == getMemoryKey(u, p)
              a == ret'.arg
              log == memory'[u][p].interactions
              turns == trail'[<<u, p>>]
              c == getContextNested(memory', u, p)
          IN  /\ SameTurn(log[Len(log)], Turn(a.userQuery, a.aiResponse, a.intent, now),
                          Obj(undefined))
              /\ TotalOf(memory', u, p) = TotalOf(memory, u, p) + 1
              /\ \A type \in IntentTypes :
                    TypeCountOf(memory', u, p, type)
                        = TypeCountOf(memory, u, p, type)
                          + (IF HasType(a.intent) /\ a.intent.type = type THEN 1 ELSE 0)
              /\ ret'.flat # TypeError
                 => /\ FlatTotalOf(conversations', key) = FlatTotalOf(conversations, key) + 1
                    /\ FlatTypesOf(conversations', key)
                           = FlatTypesOf(conversations, key)
                             \cup (IF HasType(a.intent) THEN {a.intent.type} ELSE {})
              /\ (/\ Len(turns) = 2
                  /\ HasType(turns[1].intent) /\ HasType(turns[2].intent)
                  /\ turns[1].intent.type # turns[2].intent.type)
                 => /\ c.totalInteractions = 2
                    /\ c.hasHistory
                    /\ {turns[1].intent.type, turns[2].intent.type}
                           \subseteq Range(c.preferredAnalysisTypes)]_vars

\* the log of a pair in the nested store, empty when it has none
LogOf(mem, k) ==
    IF hasPlatform(mem, k[1], k[2]) THEN mem[k[1]][k[2]].interactions ELSE <<>>

\* the age in ms of an interaction at clock value t
AgeAt(interaction, t) == t - interaction.timestamp.iso

RECURSIVE SumOver(_, _)
SumOver(f, keys) ==
    IF keys = {} THEN 0
    ELSE LET k == CHOOSE k \in keys : TRUE
         IN  f[k] + SumOver(f, keys \ {k})

\* C19: cleanup(maxAge) removes from every log exactly the interactions
\* older than maxAge, keeps the others in their order, and returns the number
\* of interactions it removed from all logs together.
C19_SweepRemovesOlder ==
    [][IsCall("cleanup")
       => LET maxAge == ret'.arg.maxAgeHours * 60 * 60 * 1000
              NotOlder(interaction) == AgeAt(interaction, now) <= maxAge
              removed == [k \in storedKeys(memory) |->
                            Len(LogOf(memory, k))
                            - Len(SelectSeq(LogOf(memory, k), NotOlder))]
          IN  /\ \A k \in storedKeys(memory) :
                    LogOf(memory', k) = SelectSeq(LogOf(memory, k), NotOlder)
              /\ storedKeys(memory') \subseteq storedKeys(memory)
              /\ ret'.nested = Num(SumOver(removed, storedKeys(memory)))]_vars

\* C20: after cleanup no pair with an empty log and no user without a
\* platform remains; every pair whose interactions were all removed is gone,
\* and getContext answers for it as after clear; every pair with an
\* interaction left is kept with its counters; for all pairs of all users.
C20_SweepLeavesNoEmptyLog ==
    [][IsCall("cleanup")
       => LET cutoffTime == now - ret'.arg.maxAgeHours * 60 * 60 * 1000
              Survives(interaction) == interaction.timestamp.iso > cutoffTime
          IN  /\ \A k \in storedKeys(memory') : Len(LogOf(memory', k)) >= 1
              /\ \A u \in DOMAIN memory' : DOMAIN memory'[u] # {}
              /\ \A k \in storedKeys(memory) :
                    IF SelectSeq(LogOf(memory, k), Survives) = <<>>
                    THEN /\ k \notin storedKeys(memory')
                         /\ ~getContextNested(memory', k[1], k[2]).hasHistory
                         /\ getContextNested(memory', k[1], k[2])
                                = getContextNested(clearNested(memory, k[1], k[2]),
                                                   k[1], k[2])
                    ELSE /\ k \in storedKeys(memory')
                         /\ getContextNested(memory', k[1], k[2]).hasHistory
                         /\ memory'[k[1]][k[2]].context = memory[k[1]][k[2]].context]_vars

\* C20 witness: three pairs of two users had logs; a cleanup removed two
\* interactions, and with them one user and one of the other user's two
\* platforms, and kept the other platform.
C20_Witness ==
    /\ ret.op = "cleanup"
    /\ lastSteps[Len(lastSteps)].op = "cleanup"
    /\ ret.nested = Num(2)
    /\ DOMAIN conversations = {"u1:tg", "u1:web", "u2:tg"}
    /\ storedKeys(memory) = {<<"u1", "web">>}
    /\ DOMAIN memory = {"u1"}
    /\ ~getContextNested(memory, "u1", "tg").hasHistory
    /\ ~getContextNested(memory, "u2", "tg").hasHistory
    /\ getContextNested(memory, "u1", "web").hasHistory

\* totalInteractions as getContext reports it for a pair
ReportedTotal(mem, k) == getContextNested(mem, k[1], k[2]).totalInteractions

\* cleanup left the counters of the pairs it kept as they were
SurvivorsKeepContext ==
    \A k \in storedKeys(memory') :
        /\ k \in storedKeys(memory)
        /\ memory'[k[1]][k[2]].context = memory[k[1]][k[2]].context
        /\ LET before == getContextNested(memory, k[1], k[2])
               after == getContextNested(memory', k[1], k[2])
           IN  /\ after.commonTopics = before.commonTopics
               /\ after.preferredAnalysisTypes = before.preferredAnalysisTypes
               /\ after.riskTolerance = before.riskTolerance
               /\ after.lastInteractionTime = before.lastInteractionTime

\* C21: over addInteraction and cleanup calls the totalInteractions that
\* getContext reports for a pair never decreases, and cleanup leaves the
\* topic counts, intent-type counts, risk tolerance and lastInteractionTime
\* of the pairs it keeps unchanged.
C21_CounterNeverDecreases ==
    [][/\ \A k \in SweepPairs : ReportedTotal(memory', k) >= ReportedTotal(memory, k)
       /\ IsCall("cleanup") => SurvivorsKeepContext]_vars

\* C21, amended: the counter of a pair never decreases while the pair's log
\* exists; it is reset only when cleanup removes the whole log of the pair,
\* which then answers getContext with 0; cleanup leaves the counters of the
\* pairs it keeps unchanged.
C21_CounterNeverDecreasesWhileLogExists ==
    [][/\ \A k \in SweepPairs :
            IF k \in storedKeys(memory) /\ k \notin storedKeys(memory')
            THEN /\ IsCall("cleanup")
                 /\ filterNewer(LogOf(memory, k),
                                cutoffTimeOf(now, ret'.arg.maxAgeHours)) = <<>>
                 /\ ReportedTotal(memory', k) = 0
            ELSE ReportedTotal(memory', k) >= ReportedTotal(memory, k)
       /\ IsCall("cleanup") => SurvivorsKeepContext]_vars

\* C21 witness: a cleanup removed the older of the two interactions of a log
\* and the whole log of another pair; the first pair still reports two
\* interactions and the time of its last append.
C21_Witness ==
    /\ ret.op = "cleanup"
    /\ lastSteps[Len(lastSteps)].op = "cleanup"
    /\ ret.nested = Num(2)
    /\ Len(LogOf(memory, <<"u1", "tg">>)) = 1
    /\ ReportedTotal(memory, <<"u1", "tg">>) = 2
    /\ getContextNested(memory, "u1", "tg").lastInteractionTime = toISOString(TickMs)
    /\ Range(getContextNested(memory, "u1", "tg").commonTopics) = {"gas"}
    /\ <<"u2", "tg">> \notin storedKeys(memory)
    /\ "u2:tg" \in DOMAIN conversations

\* call c goes from the await of generateResponse to its return in this step
Returns(c) ==
    /\ c \in 1..Len(inflight)
    /\ inflight[c].pc = "generateResponse"
    /\ inflight'[c].pc = "returned"

\* call c has returned the normal result, the one without the error field
ReturnedNormally(q) == q.pc = "returned" /\ q.result.error = undefined
ReturnedError(q) == q.pc = "returned" /\ q.result.error = Bool(TRUE)

\* the log of pair k holds, oldest first, the interactions of the last calls
\* of ids, as many as the cap allows, and each call of ids once
LogHoldsCalls(log, calls_, ids) ==
    LET n == Min(Len(ids), maxInteractionsPerUser)
    IN  /\ Len(log) = n
        /\ \A i, j \in 1..Len(ids) : i # j => ids[i] # ids[j]
        /\ \A j \in 1..n :
              LET q == calls_[ids[Len(ids) - n + j]]
              IN  /\ ReturnedNormally(q)
                  /\ log[j].userQuery = q.userQuery
                  /\ log[j].aiResponse = q.response
                  /\ log[j].intent = q.intent

\* C22: with several processQuery calls for a pair in flight, a call that
\* returns the normal result adds one to the pair's totalInteractions and
\* appends its one interaction, evicting the oldest at the cap; after every
\* step the counter is the number of calls that appended since the log was
\* created, the log holds the last of their interactions once each, the log
\* is within the cap and the counter is at least its length.
C22_EachCallAppendsOnce ==
    [][/\ \A c \in 1..Len(inflight) :
            Returns(c)
            => LET q == inflight'[c]
                   k == <<q.userId, q.platform>>
                   old == LogOf(memory, k)
                   new == LogOf(memory', k)
               IN  /\ ReturnedNormally(q)
                   /\ ReportedTotal(memory', k) = ReportedTotal(memory, k) + 1
                   /\ Len(new) = Min(Len(old) + 1, maxInteractionsPerUser)
                   /\ SameTurn(new[Len(new)],
                               Turn(q.userQuery, q.response, q.intent, now),
                               Obj(undefined))
                   /\ \A j \in 1..(Len(new) - 1) :
                         new[j] = old[Len(old) - (Len(new) - 1) + j]
       /\ \A k \in QueryPairs :
            /\ ReportedTotal(memory', k) = Len(IF MapHas(appendedBy', k)
                                               THEN appendedBy'[k] ELSE <<>>)
            /\ LogHoldsCalls(LogOf(memory', k), inflight',
                             IF MapHas(appendedBy', k) THEN appendedBy'[k] ELSE <<>>)
            /\ Len(LogOf(memory', k)) <= maxInteractionsPerUser
            /\ ReportedTotal(memory', k) >= Len(LogOf(memory', k))
            /\ Cardinality({c \in 1..Len(inflight') : ReturnedNormally(inflight'[c])})
                   >= ReportedTotal(memory', k)]_vars

\* C22 witness: three calls for one pair, one more than the cap, read their
\* context before any of them appended; the second returned first, then the
\* third, then the first: the log counts three and holds the interaction of
\* the third and then that of the first.
C22_Witness ==
    /\ Len(inflight) = 3
    /\ \A c \in 1..3 : ReturnedNormally(inflight[c]) /\ inflight[c].before = 0
    /\ inflight[1].generation = "fallback"
    /\ inflight[3].generation = "model"
    /\ Appended(<<"u1", "tg">>) = <<2, 3, 1>>
    /\ ReportedTotal(memory, <<"u1", "tg">>) = 3
    /\ Len(LogOf(memory, <<"u1", "tg">>)) = maxInteractionsPerUser
    /\ LogOf(memory, <<"u1", "tg">>)[1].aiResponse = Str("ok")
    /\ LogOf(memory, <<"u1", "tg">>)[2].aiResponse = inflight[1].response

\* the turns given to the log of a pair since it was created
TrailOf(k) == IF MapHas(trail, k) THEN trail[k] ELSE <<>>

\* log is made of the last turns of turns, whole and in their order
WholeSuffix(log, turns) ==
    /\ Len(log) <= Len(turns)
    /\ \A j \in 1..Len(log) :
          SameTurn(log[j], turns[Len(turns) - Len(log) + j], Obj(undefined))

\* C23: in every interleaving of processQuery calls suspended at their
\* awaits, clearMemory and cleanup, a cleanup step acts on every log as the
\* appends and clears before it left it: it removes the interactions that are
\* not younger than the maximum age, keeps the others in their order, and
\* changes no call in flight; a call that returns after it appends behind
\* what cleanup kept; and after every step a log is the last turns given to
\* it, whole and in order, with a counter that counts all of them.
C23_CleanupIsAtomic ==
    [][/\ IsCall("cleanup")
          => LET maxAge == ret'.arg.maxAgeHours * 60 * 60 * 1000
                 Younger(interaction) == AgeAt(interaction, now) < maxAge
             IN  /\ inflight' = inflight
                 /\ \A k \in QueryPairs :
                       LogOf(memory', k) = SelectSeq(LogOf(memory, k), Younger)
       /\ \A c \in 1..Len(inflight) :
            Returns(c)
            => LET q == inflight'[c]
                   k == <<q.userId, q.platform>>
               IN  /\ Len(LogOf(memory', k))
                         = Min(Len(LogOf(memory, k)) + 1, maxInteractionsPerUser)
                   /\ LogOf(memory', k)[Len(LogOf(memory', k))].aiResponse = q.response
                   /\ \A j \in 1..(Len(LogOf(memory', k)) - 1) :
                         LogOf(memory', k)[j]
                             = LogOf(memory, k)[Len(LogOf(memory, k))
                                                - (Len(LogOf(memory', k)) - 1) + j]
       /\ \A k \in QueryPairs :
            LET turns == IF MapHas(trail', k) THEN trail'[k] ELSE <<>>
            IN  /\ WholeSuffix(LogOf(memory', k), turns)
                /\ ReportedTotal(memory', k) = Len(turns)
                /\ turns # <<>> => LogOf(memory', k) # <<>>]_vars

\* C23 witness: a call read its context, an hour passed, cleanup removed the
\* pair's only interaction and with it the log, and the call then returned:
\* the log holds its interaction alone and counts one, while its context
\* still says one earlier interaction.
C23_Witness ==
    /\ Len(lastSteps) = 2
    /\ lastSteps[1].op = "cleanup"
    /\ lastSteps[2].op = "addInteraction"
    /\ Len(inflight) = 2
    /\ ReturnedNormally(inflight[2])
    /\ inflight[2].context.hasHistory
    /\ inflight[2].context.totalInteractions = 1
    /\ Appended(<<"u1", "tg">>) = <<2>>
    /\ ReportedTotal(memory, <<"u1", "tg">>) = 1
    /\ Len(LogOf(memory, <<"u1", "tg">>)) = 1
    /\ LogOf(memory, <<"u1", "tg">>)[1].timestamp = toISOString(TickMs)

\* C24: when the request to the model for the response of a query fails, the
\* call appends no interaction: the pair's totalInteractions, topic counts
\* and risk tolerance are after the call's return what they were before it.
C24_FailedGenerationAppendsNothing ==
    [][\A c \in 1..Len(inflight) :
          (Returns(c) /\ inflight'[c].generation = "fallback")
          => LET q == inflight[c]
                 before == getContextNested(memory, q.userId, q.platform)
                 after == getContextNested(memory', q.userId, q.platform)
             IN  /\ LogOf(memory', <<q.userId, q.platform>>)
                       = LogOf(memory, <<q.userId, q.platform>>)
                 /\ after.totalInteractions = before.totalInteractions
                 /\ after.commonTopics = before.commonTopics
                 /\ after.riskTolerance = before.riskTolerance]_vars

\* a is the end of b
IsSuffix(a, b) ==
    /\ Len(a) <= Len(b)
    /\ \A j \in 1..Len(a) : a[j] = b[Len(b) - Len(a) + j]

\* the timestamps of a log never go back from one entry to the next
TimeOrdered(log) ==
    \A i, j \in 1..Len(log) :
        i < j => dateOf(log[i].timestamp) <= dateOf(log[j].timestamp)

\* the log of pair k without the interaction this step appended to it
WithoutAppended(log, k) ==
    IF IsCall("addInteraction") /\ ret'.userId = k[1] /\ ret'.platform = k[2]
    THEN SubSeq(log, 1, Len(log) - 1)
    ELSE log

\* C25: with a clock that never goes back, every log holds its interactions
\* in the order of their appends with timestamps that never decrease; an
\* append, its eviction at the cap and cleanup keep the interactions that
\* remain in the order they had; and lastInteractionTime is the timestamp
\* of the last append to the pair.
C25_LogsKeepAppendOrder ==
    [][\A k \in storedKeys(memory') :
            LET log == LogOf(memory', k)
                turns == IF MapHas(trail', k) THEN trail'[k] ELSE <<>>
            IN  /\ TimeOrdered(log)
                /\ WholeSuffix(log, turns)
                /\ turns # <<>>
                /\ memory'[k[1]][k[2]].context.lastInteractionTime
                       = toISOString(turns[Len(turns)].at)
                /\ getContextNested(memory', k[1], k[2]).lastInteractionTime
                       = toISOString(turns[Len(turns)].at)
                /\ k \in storedKeys(memory)
                   => IsSuffix(WithoutAppended(log, k), LogOf(memory, k))]_vars

\* C25 witness: three appends to one pair an hour apart; the first was
\* evicted at the cap, the log holds the second and the third in that order,
\* and lastInteractionTime is the time of the third.
C25_Witness ==
    /\ JustAppended
    /\ now = 2 * TickMs
    /\ ReportedTotal(memory, <<"u1", "tg">>) = 3
    /\ Len(LogOf(memory, <<"u1", "tg">>)) = 2
    /\ LogOf(memory, <<"u1", "tg">>)[1].timestamp = toISOString(TickMs)
    /\ LogOf(memory, <<"u1", "tg">>)[2].timestamp = toISOString(2 * TickMs)
    /\ getContextNested(memory, "u1", "tg").lastInteractionTime
           = toISOString(2 * TickMs)

\* the position of a call in processQuery: 1 at the await of analyzeIntent,
\* 2 at the await of generateResponse, 3 once it has returned
Position(q) ==
    CASE q.pc = "analyzeIntent" -> 1
      [] q.pc = "generateResponse" -> 2
      [] q.pc = "returned" -> 3

\* C26: a processQuery call classifies the intent, then reads the context,
\* then generates the response, then appends: it has an intent and a context
\* from the await of generateResponse on, a response only when it returns,
\* and it appends in the step in which it returns and in no other; the
\* context it hands to the response generator is the one getContext gave
\* before the step of its append, it reports as totalInteractions the number
\* of interactions appended to the pair's log, since the log was created,
\* before that getContext, and the template response quotes that number.
C26_ContextPrecedesAppend ==
    [][\A c \in 1..Len(inflight') :
          LET q == inflight'[c]
              k == <<q.userId, q.platform>>
              ids == IF MapHas(appendedBy', k) THEN appendedBy'[k] ELSE <<>>
          IN  /\ c <= Len(inflight)
                 => /\ Position(q) \in {Position(inflight[c]), Position(inflight[c]) + 1}
                    /\ Position(inflight[c]) >= 2
                       => q.intent = inflight[c].intent /\ q.context = inflight[c].context
                    /\ (Position(inflight[c]) = 1 /\ Position(q) = 2)
                       => /\ q.context = getContextNested(memory, q.userId, q.platform)
                          /\ memory' = memory
                    /\ (c \in Range(ids) /\ c \notin Range(Appended(k))) => Returns(c)
              /\ Position(q) = 1
                 => q.intent = None /\ q.context = None /\ q.response = None
              /\ (Position(q) = 2 \/ ReturnedNormally(q))
                 => /\ q.intent # None
                    /\ q.context # None
                    /\ q.context.totalInteractions = q.before
                    /\ q.context.hasHistory = (q.before > 0)
                    /\ Len(q.context.recentInteractions)
                           = Min(q.before, maxInteractionsPerUser)
              /\ Position(q) = 2 => q.response = None /\ c \notin Range(ids)
              /\ (ReturnedNormally(q) /\ q.generation # "model")
                 => q.response = generateDemoResponse(q.userQuery, q.intent,
                                    [hasHistory |-> q.before > 0,
                                     totalInteractions |-> q.before])]_vars

\* C26 witness: a call read its context after one interaction had been
\* appended to the pair and then returned: its response quotes one previous
\* conversation and the log now counts two.
C26_Witness ==
    /\ Len(inflight) = 2
    /\ ReturnedNormally(inflight[2])
    /\ inflight[2].before = 1
    /\ inflight[2].context.totalInteractions = 1
    /\ inflight[2].response
           = Str("market_insights | I remember our previous 1 conversations")
    /\ Appended(<<"u1", "tg">>) = <<1, 2>>
    /\ ReportedTotal(memory, <<"u1", "tg">>) = 2

\* C27: the two implementations answer every call alike: getHistory with the
\* same queries, responses and intents in the same order, getContext with the
\* same hasHistory and totalInteractions, clear with the same result.
C27_ImplementationsAgree ==
    [][/\ ret'.op = "getHistory"
          => /\ Len(ret'.flat) = Len(ret'.nested)
             /\ \A j \in 1..Len(ret'.flat) :
                   /\ ret'.flat[j].userQuery = ret'.nested[j].userQuery
                   /\ ret'.flat[j].aiResponse = ret'.nested[j].aiResponse
                   /\ ret'.flat[j].intent = ret'.nested[j].intent
       /\ ret'.op = "getContext"
          => /\ ret'.flat.hasHistory = ret'.nested.hasHistory
             /\ ret'.flat.totalInteractions = Num(ret'.nested.totalInteractions)
       /\ ret'.op = "clear" => ret'.flat = ret'.nested]_vars

\* the risk tolerance kept for a pair that has a log
RiskOf(mem, k) == mem[k[1]][k[2]].context.riskTolerance

\* a step changes the risk tolerance of a log only along these lines: never
\* to 'unknown', and to 'moderate' only from 'unknown'
RiskMovesForward(k) ==
    (hasPlatform(memory, k[1], k[2]) /\ hasPlatform(memory', k[1], k[2])
     /\ ~IsCall("clear"))
    => /\ RiskOf(memory, k) # "unknown" => RiskOf(memory', k) # "unknown"
       /\ RiskOf(memory', k) = "moderate"
          => RiskOf(memory, k) \in {"unknown", "moderate"}

\* C28: while a pair's log exists, its risk tolerance is not 'unknown' once
\* an append to it has completed and never becomes 'unknown' again, and it
\* becomes 'moderate' only from 'unknown': a log that has been
\* 'conservative' or 'aggressive' is never 'moderate' afterwards.
C28_RiskToleranceSettles ==
    [][\A k \in TopicPairs :
          /\ RiskMovesForward(k)
          /\ (hasPlatform(memory', k[1], k[2]) /\ MapHas(trail', k) /\ trail'[k] # <<>>)
             => RiskOf(memory', k) # "unknown"]_vars

\* C28 without the case of an append that leaves 'unknown' in place
C28_RiskNeverMovesBack == [][\A k \in TopicPairs : RiskMovesForward(k)]_vars

\* the number of times call c stands in ids
Occurrences(ids, c) == Cardinality({i \in 1..Len(ids) : ids[i] = c})

Suspended(calls_, k) ==
    {c \in 1..Len(calls_) :
        /\ calls_[c].pc # "returned"
        /\ calls_[c].userId = k[1]
        /\ calls_[c].platform = k[2]}

\* C30: clearMemory leaves the calls in flight as they are, suspended with
\* the intent and the context they have; each of them appends when it
\* returns, the first into a log created anew; after every step the log of
\* a pair holds the interactions of the calls that returned since the last
\* clearMemory of the pair, once each and in the order of their returns (the
\* last of them at the cap), and totalInteractions is their number, whatever
\* number their contexts, read before the clearMemory, report.
C30_ClearDoesNotCancel ==
    [][/\ IsCall("clear")
          => LET k == <<ret'.userId, ret'.platform>>
             IN  /\ inflight' = inflight
                 /\ Suspended(inflight', k) = Suspended(inflight, k)
                 /\ ~hasPlatform(memory', k[1], k[2])
                 /\ ~MapHas(appendedBy', k)
       /\ \A c \in 1..Len(inflight) :
            Returns(c)
            => LET q == inflight'[c]
                   k == <<q.userId, q.platform>>
               IN  /\ ReturnedNormally(q)
                   /\ q.context = inflight[c].context
                   /\ appendedBy'[k] = Append(Appended(k), c)
                   /\ ~hasPlatform(memory, k[1], k[2])
                      => /\ LogOf(memory', k)
                               = <<LogOf(memory', k)[1]>>
                         /\ ReportedTotal(memory', k) = 1
       /\ \A k \in QueryPairs :
            LET ids == IF MapHas(appendedBy', k) THEN appendedBy'[k] ELSE <<>>
            IN  /\ LogHoldsCalls(LogOf(memory', k), inflight', ids)
                /\ ReportedTotal(memory', k) = Len(ids)
                /\ getContextNested(memory', k[1], k[2]).hasHistory = (ids # <<>>)]_vars

\* C30 witness: a call appended; a second call read its context, which
\* reports that interaction; clearMemory ran while the second call was
\* suspended; the second call then returned: the log holds its interaction
\* alone and counts one, and its response quotes the conversation that was
\* cleared.
C30_Witness ==
    /\ Len(lastSteps) = 2
    /\ lastSteps[1].op = "clear"
    /\ lastSteps[1].removed.nested
    /\ lastSteps[2].op = "addInteraction"
    /\ Len(inflight) = 2
    /\ ReturnedNormally(inflight[1])
    /\ ReturnedNormally(inflight[2])
    /\ inflight[2].context.hasHistory
    /\ inflight[2].context.totalInteractions = 1
    /\ inflight[2].response
           = Str("market_insights | I remember our previous 1 conversations")
    /\ Appended(<<"u1", "tg">>) = <<2>>
    /\ ReportedTotal(memory, <<"u1", "tg">>) = 1
    /\ Len(getHistoryNested(memory, "u1", "tg", 10)) = 1
    /\ getHistoryNested(memory, "u1", "tg", 10)[1].aiResponse = inflight[2].response

====
